---------------------------- MODULE Spec2Model ----------------------------
(***************************************************************************)
(* Model of the release pipeline orchestrator of semantic-release          *)
(* (index.js: run, callFail and the default export) together with the git  *)
(* helpers (lib/git.js) and the version calculator                         *)
(* (lib/get-next-version.js) it calls.                                     *)
(*                                                                         *)
(* JavaScript values are encoded as follows: undefined, null and false are *)
(* the reserved strings UNDEFINED, NULL and JSFALSE; a semver version is a *)
(* record [major, minor, patch, pre] whose pre is <<>> (no prerelease) or  *)
(* <<identifier, counter>>; an object under construction is a function     *)
(* from the names of the fields already assigned to their values.          *)
(***************************************************************************)
EXTENDS Integers, Sequences, FiniteSets, TLC

UNDEFINED == "undefined"
NULL == "null"
JSFALSE == "false"

\* Bounds of the model.
MaxReleases == 1

(***************************************************************************)
(* semver (external library), as far as the orchestrator uses it.          *)
(***************************************************************************)
V(ma, mi, pa, pre) == [major |-> ma, minor |-> mi, patch |-> pa, pre |-> pre]

\* Faulty variant of Triplet: the prerelease is kept
Triplet_WithPrerelease(v) == v

Triplet(v) == V(v.major, v.minor, v.patch, <<>>)

\* Lexical (ASCII) order of the prerelease identifiers the model uses.
IdRank(id) == CASE id = "alpha" -> 1 [] id = "beta" -> 2 [] OTHER -> 3

\* semver.compare(a, b) < 0
SemverLt(a, b) ==
  \/ a.major < b.major
  \/ a.major = b.major /\ a.minor < b.minor
  \/ a.major = b.major /\ a.minor = b.minor /\ a.patch < b.patch
  \/ /\ a.major = b.major /\ a.minor = b.minor /\ a.patch = b.patch
     /\ \/ a.pre # <<>> /\ b.pre = <<>>
        \/ /\ a.pre # <<>> /\ b.pre # <<>>
           /\ \/ IdRank(a.pre[1]) < IdRank(b.pre[1])
              \/ a.pre[1] = b.pre[1] /\ a.pre[2] < b.pre[2]

SemverGt(a, b) == SemverLt(b, a)

\* semver.inc(version, release) for release in patch / minor / major / prerelease
SemverInc(v, release) ==
  CASE release = "patch" ->
         V(v.major, v.minor, IF v.pre = <<>> THEN v.patch + 1 ELSE v.patch, <<>>)
    [] release = "minor" ->
         V(v.major, IF v.patch # 0 \/ v.pre = <<>> THEN v.minor + 1 ELSE v.minor, 0, <<>>)
    [] release = "major" ->
         V(IF v.minor # 0 \/ v.patch # 0 \/ v.pre = <<>> THEN v.major + 1 ELSE v.major, 0, 0, <<>>)
    [] release = "prerelease" ->
         V(v.major, v.minor, v.patch, <<v.pre[1], v.pre[2] + 1>>)

\* A range is [min, hasMax, max]: >=min and, when hasMax, <max.  A version with
\* a prerelease never satisfies a range whose comparators have none.
SemverSatisfies(v, range) ==
  /\ v.pre = <<>>
  /\ ~SemverLt(v, range.min)
  /\ range.hasMax => SemverLt(v, range.max)

Range(min, hasMax, max) == [min |-> min, hasMax |-> hasMax, max |-> max]

(***************************************************************************)
(* Helpers of lib/utils.js, lib/get-error.js and lib/get-last-release.js.  *)
(***************************************************************************)
\* `${tagFormat}` rendered with the default format v${version}
makeTag(version) == <<"v", version>>

Falsy(x) == x \in {UNDEFINED, NULL, JSFALSE, ""}

isSameChannel(channel, otherChannel) ==
  channel = otherChannel \/ (Falsy(channel) /\ Falsy(otherChannel))

highest(version, otherVersion) ==
  IF SemverGt(version, otherVersion) THEN version ELSE otherVersion

tagsToVersions(tags) == {tags[i].version : i \in DOMAIN tags}

\* getLatestVersion(versions, {withPrerelease: true}); versions is not empty
getLatestVersion(versions) ==
  CHOOSE v \in versions : \A w \in versions : ~SemverLt(v, w)

\* A SemanticReleaseError with the given code
getError(code) == [code |-> code, semanticRelease |-> TRUE]

\* The error execa rejects with when a git command exits with a failure
ExecaError(command) == [code |-> command, semanticRelease |-> FALSE]

Tag(version, channels) ==
  [gitTag |-> makeTag(version), version |-> version, channels |-> channels]

\* The tags getLastRelease considers: on a prerelease branch the prereleases
\* of the branch's channel, and on every branch the regular releases.
LastReleaseCandidates(b) ==
  {i \in DOMAIN b.tags :
     \/ b.tags[i].version.pre = <<>>
     \/ /\ b.type = "prerelease"
        /\ "channels" \in DOMAIN b.tags[i]
        /\ \E j \in DOMAIN b.tags[i].channels :
              isSameChannel(b.channel, b.tags[i].channels[j])}

\* getLastRelease(context): the highest of them, or {} when there is none
getLastRelease(b) ==
  IF LastReleaseCandidates(b) = {} THEN <<>>
  ELSE LET i == CHOOSE i \in LastReleaseCandidates(b) :
                  \A j \in LastReleaseCandidates(b) :
                     /\ ~SemverLt(b.tags[i].version, b.tags[j].version)
                     /\ b.tags[j].version = b.tags[i].version => i <= j
           t == b.tags[i]
       IN [version |-> t.version, gitTag |-> t.gitTag, gitHead |-> t.gitTag,
           name |-> t.gitTag,
           channels |-> IF "channels" \in DOMAIN t THEN t.channels ELSE <<>>,
           hasChannels |-> "channels" \in DOMAIN t]

\* getReleaseToAdd(context) returns a release of the branch's history that is
\* not yet on the branch's channel, or nothing: the tags it may return.
ReleasesToAdd(b) ==
  {i \in DOMAIN b.tags :
     /\ "channels" \in DOMAIN b.tags[i]
     /\ \A j \in DOMAIN b.tags[i].channels :
           ~isSameChannel(b.channel, b.tags[i].channels[j])}

(***************************************************************************)
(* lib/get-next-version.js                                                 *)
(***************************************************************************)
DEFAULT_FIRST_RELEASE == V(1, 0, 0, <<>>)

DEFAULT_PRERELEASE_IDENTIFIER_BASE == 1

\* Faulty variant of inc: the major-zero rule is missing
inc_NoMajorZeroRule(version, release) == SemverInc(version, release)

\* Faulty variant of inc: the prerelease of the version is dropped before a
\* patch, minor or major increment
inc_StripsPrerelease(version, release) ==
  IF release = "prerelease" THEN SemverInc(version, release)
  ELSE inc_NoMajorZeroRule(Triplet(version),
                           IF version.major = 0
                           THEN CASE release = "major" -> "minor" [] OTHER -> "patch"
                           ELSE release)

\* Faulty variant of inc: at major version 0 a major is treated as a patch
inc_MajorAsPatch(version, release) ==
  IF version.major = 0 /\ release # "prerelease" THEN SemverInc(version, "patch")
  ELSE SemverInc(version, release)

\* inc(version, release): semver.inc with the major-zero rule applied first
inc(version, release) ==
  LET dampened == IF version.major = 0
                  THEN CASE release = "major" -> "minor"
                         [] release = "minor" -> "patch"
                         [] release = "patch" -> "patch"
                         [] OTHER -> release
                  ELSE release
  IN SemverInc(version, dampened)

\* Faulty variant of WithPrerelease: the configured base is ignored
WithPrerelease_DefaultBase(version, identifier, base) ==
  V(version.major, version.minor, version.patch,
    <<identifier, DEFAULT_PRERELEASE_IDENTIFIER_BASE>>)

\* `${version}-${branch.prerelease}.${prereleaseIdentifierBase}`
WithPrerelease(version, identifier, base) ==
  V(version.major, version.minor, version.patch, <<identifier, base>>)

\* The value of a destructured option: its default when it is undefined (an
\* undefined option is a field the options do not have)
OptionOr(opts, name, default) ==
  IF name \in DOMAIN opts THEN opts[name] ELSE default

\* Faulty variant of getNextVersion: a prerelease on the targeted channel is
\* always continued
getNextVersion_AlwaysContinues(b, type, channel, last, pkgVersion, opts) ==
  LET prereleaseIdentifierBase ==
        OptionOr(opts, "prereleaseIdentifierBase", DEFAULT_PRERELEASE_IDENTIFIER_BASE)
      firstRelease == IF OptionOr(opts, "respectPackageJsonVersion", FALSE) THEN pkgVersion
                      ELSE OptionOr(opts, "firstRelease", DEFAULT_FIRST_RELEASE)
  IN IF last # <<>>
     THEN IF b.type = "prerelease"
          THEN IF /\ last.version.pre # <<>>
                  /\ \E i \in DOMAIN last.channels : isSameChannel(last.channels[i], channel)
               THEN inc(last.version, "prerelease")
               ELSE WithPrerelease(inc(Triplet(last.version), type),
                                   b.prerelease, prereleaseIdentifierBase)
          ELSE inc(last.version, type)
     ELSE IF b.type = "prerelease"
          THEN WithPrerelease(firstRelease, b.prerelease, prereleaseIdentifierBase)
          ELSE firstRelease

\* Faulty variant of getNextVersion: the version following a prerelease on
\* the channel is the fresh candidate alone
getNextVersion_FreshOnly(b, type, channel, last, pkgVersion, opts) ==
  LET prereleaseIdentifierBase ==
        OptionOr(opts, "prereleaseIdentifierBase", DEFAULT_PRERELEASE_IDENTIFIER_BASE)
      firstRelease == IF OptionOr(opts, "respectPackageJsonVersion", FALSE) THEN pkgVersion
                      ELSE OptionOr(opts, "firstRelease", DEFAULT_FIRST_RELEASE)
  IN IF last # <<>>
     THEN IF b.type = "prerelease"
          THEN IF /\ last.version.pre # <<>>
                  /\ \E i \in DOMAIN last.channels : isSameChannel(last.channels[i], channel)
               THEN WithPrerelease(inc(getLatestVersion(tagsToVersions(b.tags)), type),
                                   b.prerelease, prereleaseIdentifierBase)
               ELSE WithPrerelease(inc(Triplet(last.version), type),
                                   b.prerelease, prereleaseIdentifierBase)
          ELSE inc(last.version, type)
     ELSE IF b.type = "prerelease"
          THEN WithPrerelease(firstRelease, b.prerelease, prereleaseIdentifierBase)
          ELSE firstRelease

\* The default export: the next version of the branch b for a release of the
\* given type on the given channel after lastRelease ({} is <<>>), with
\* context.packageVersion and context.options.
getNextVersion(b, type, channel, last, pkgVersion, opts) ==
  LET respectPackageJsonVersion == OptionOr(opts, "respectPackageJsonVersion", FALSE)
      prereleaseIdentifierBase ==
        OptionOr(opts, "prereleaseIdentifierBase", DEFAULT_PRERELEASE_IDENTIFIER_BASE)
      firstRelease == IF respectPackageJsonVersion THEN pkgVersion
                      ELSE OptionOr(opts, "firstRelease", DEFAULT_FIRST_RELEASE)
  IN IF last # <<>>
     THEN IF b.type = "prerelease"
          THEN IF /\ last.version.pre # <<>>
                  /\ \E i \in DOMAIN last.channels : isSameChannel(last.channels[i], channel)
               THEN highest(inc(last.version, "prerelease"),
                            WithPrerelease(inc(getLatestVersion(tagsToVersions(b.tags)), type),
                                           b.prerelease, prereleaseIdentifierBase))
               ELSE WithPrerelease(inc(Triplet(last.version), type),
                                   b.prerelease, prereleaseIdentifierBase)
          ELSE inc(last.version, type)
     ELSE IF b.type = "prerelease"
          THEN WithPrerelease(firstRelease, b.prerelease, prereleaseIdentifierBase)
          ELSE firstRelease

(***************************************************************************)
(* State of one invocation (index.js).                                     *)
(***************************************************************************)
VARIABLES
  pc,            \* position of the invocation in the default export / run
  envCi,         \* context.envCi: isCi, isPr, branch, prBranch
  cliOptions,    \* the options as configured: dryRun, noCi, publishOnPr
  packageVersion,\* context.packageVersion, the version of package.json
  options,       \* context.options: dryRun, noCi, publishOnPr
  git,           \* the repository: authorized, localHead, remoteHead, branches, legacyNotes
  repo,          \* tags and notes: localTags, remoteTags, localNotes, remoteNotes
  branch,        \* context.branch (<<>> while undefined)
  errors,        \* the errors list of run
  releases,      \* context.releases
  releaseToAdd,  \* the result of getReleaseToAdd (<<>> when there is none)
  lastRelease,   \* context.lastRelease (<<>> while not derived or {})
  releaseType,   \* the value of plugins.analyzeCommits (UNDEFINED before, NULL if none)
  nextRelease,   \* the nextRelease of the new-release path, field by field
  calls,         \* history: the plugin steps and git operations performed
  thrown,        \* the error thrown by getConfig or run (a list of errors, <<>> if none)
  raised,        \* the error the caller receives (<<>> when none)
  failErrors,    \* history: the errors lists plugins.fail was invoked with
  logged,        \* history: the errors logErrors rendered
  outcome,       \* "running", "false", "object" or "threw"
  result,        \* the object returned when outcome = "object"
  expansion,     \* lib/branches/expand.js: its arguments, gitBranches and result
  validation,    \* lib/definitions/branches.js: the branches and the verdicts
  tagging,       \* lib/branches/get-tags.js: its arguments and result
  concurrent     \* the other invocation on the same remote (<<>> when there is none)

vars == <<pc, envCi, cliOptions, packageVersion, options, git, repo, branch, errors, releases, releaseToAdd,
          lastRelease, releaseType, nextRelease, calls, thrown, raised, failErrors,
          logged, outcome, result, expansion, validation, tagging, concurrent>>

lib == <<expansion, validation, tagging>>

ctx == <<branch, errors, releases, releaseToAdd, lastRelease, releaseType, nextRelease>>
env == <<envCi, git, cliOptions, packageVersion, lib, concurrent>>
end == <<thrown, raised, failErrors, logged, outcome, result>>

(***************************************************************************)
(* The inputs of an invocation.                                            *)
(***************************************************************************)
BranchNames == {"master", "1.x", "beta"}

CiBranchNames == BranchNames \cup {"feature"}

Commits == {"c1", "c2", "c3"}

\* c1 <- c2 <- c3; the local HEAD is c2
Ancestor(a, b) == <<a, b>> \in {<<"c1", "c2">>, <<"c2", "c3">>, <<"c1", "c3">>}

Unbounded == Range(V(1, 0, 0, <<>>), FALSE, V(0, 0, 0, <<>>))

Below2 == Range(V(1, 0, 0, <<>>), TRUE, V(2, 0, 0, <<>>))

Branch(name, type, channel, prerelease, range, mergeRange, tags) ==
  [name |-> name, type |-> type, channel |-> channel, prerelease |-> prerelease,
   range |-> range, mergeRange |-> mergeRange, tags |-> tags]

\* The branch records getBranches may resolve for a branch name: the configured
\* branch with the tags and channels found in the repository.
BranchPool(name) ==
  CASE name = "master" ->
         {Branch("master", "release", UNDEFINED, UNDEFINED, r, <<>>, t) :
            r \in {Unbounded, Below2},
            t \in {<<>>,
                   <<Tag(V(0, 1, 0, <<>>), <<NULL>>)>>,
                   <<Tag(V(1, 0, 0, <<>>), <<NULL>>),
                     Tag(V(1, 1, 0, <<>>), <<"next-major", "next">>)>>}}
    [] name = "1.x" ->
         {Branch("1.x", "maintenance", "1.x", UNDEFINED, Below2, <<Below2>>, t) :
            t \in {<<Tag(V(1, 0, 0, <<>>), <<NULL, "1.x">>)>>,
                   <<Tag(V(1, 0, 0, <<>>), <<NULL, "1.x">>),
                     Tag(V(1, 0, 1, <<>>), <<NULL>>)>>,
                   <<Tag(V(1, 5, 0, <<>>), <<NULL, "1.x">>),
                     Tag(V(2, 0, 0, <<>>), <<NULL>>)>>}}
    [] name = "beta" ->
         {Branch("beta", "prerelease", "beta", "beta", Unbounded, <<>>, t) :
            t \in {<<>>,
                   <<Tag(V(1, 0, 0, <<>>), <<NULL>>)>>,
                   <<Tag(V(1, 0, 0, <<>>), <<NULL, "beta">>),
                     Tag(V(1, 1, 0, <<"beta", 1>>), <<"beta">>)>>}}
    [] OTHER -> {}

\* The errors a failing plugin step rejects with: SemanticReleaseErrors, other
\* errors, or an AggregateError of both.
PluginErrors ==
  {<<getError("EPLUGIN")>>,
   <<[code |-> "Error", semanticRelease |-> FALSE]>>,
   <<getError("EPLUGIN"), [code |-> "Error", semanticRelease |-> FALSE]>>}

\* The lists of releases the plugins of a publish or addChannel step return
PluginReleases(gitTag) ==
  {[i \in 1..n |-> [pluginName |-> i, gitTag |-> gitTag]] : n \in 0..MaxReleases}

ReleaseTypes == {"patch", "minor", "major"}

\* The branch another name than the CI branch resolves to
DefaultBranch(name) ==
  CHOOSE b \in BranchPool(name) : b.tags = <<>> \/ Len(b.tags) = 1

\* ciBranch of run
CiBranch(e) == IF e.isPr THEN e.prBranch ELSE e.branch

\* The other branch next to the CI branch b: without tags when the release
\* branch b has none, as no release was made in the repository yet
OtherBranch(b, name) ==
  IF b.type = "release" /\ b.tags = <<>>
  THEN [DefaultBranch(name) EXCEPT !.tags = <<>>]
  ELSE DefaultBranch(name)

\* The lists of branches getBranches may return in a run on the CI branch ci
ResolvedBranches(ci) ==
  IF ci \in BranchNames
  THEN {[n \in BranchNames |-> IF n = ci THEN b ELSE OtherBranch(b, n)] : b \in BranchPool(ci)}
  ELSE {[n \in BranchNames |-> DefaultBranch(n)]}

AllTags(bs) == UNION {{bs[n].tags[i] : i \in DOMAIN bs[n].tags} : n \in DOMAIN bs}

GIT_NOTE_REF == "semantic-release"

\* The notes ref `${GIT_NOTE_REF}-${ref}` of one tag
NoteRef(ref) == <<GIT_NOTE_REF, ref>>

\* The notes ref of all tags, "used for retro-compatibility"
LegacyNoteRef == <<GIT_NOTE_REF>>

\* The notes of the repository, by notes ref and annotated tag: the note
\* {channels} of every tag, under the ref of the tag or, in a repository
\* released by an earlier version, under the shared ref
NotesOf(bs, legacy) ==
  [k \in {<<IF legacy THEN LegacyNoteRef ELSE NoteRef(t.gitTag), t.gitTag>> :
            t \in AllTags(bs)} |->
     [channels |-> (CHOOSE t \in AllTags(bs) : t.gitTag = k[2]).channels]]

\* The head ls-remote prints for the CI branch: a commit, or nothing ("") for
\* a CI branch that is not a remote branch, which only a run with publishOnPr
\* resolves to a branch record
RemoteHeads(o) == IF o.publishOnPr THEN Commits \cup {""} ELSE Commits

Init ==
  /\ pc = "getConfig"
  /\ envCi \in {[isCi |-> c, isPr |-> FALSE, branch |-> b, prBranch |-> UNDEFINED] :
                  c \in BOOLEAN, b \in CiBranchNames}
           \cup {[isCi |-> TRUE, isPr |-> TRUE, branch |-> "master", prBranch |-> b] :
                  b \in CiBranchNames}
  /\ cliOptions \in [dryRun : BOOLEAN, noCi : BOOLEAN, publishOnPr : BOOLEAN]
  /\ options = cliOptions
  /\ packageVersion = V(0, 0, 0, <<>>)
  /\ \E a \in BOOLEAN, r \in RemoteHeads(options), bs \in ResolvedBranches(CiBranch(envCi)),
        legacy \in BOOLEAN :
       /\ git = [authorized |-> a, localHead |-> "c2", remoteHead |-> r, branches |-> bs,
                 legacyNotes |-> legacy]
       /\ repo = [localTags |-> {t.gitTag : t \in AllTags(bs)},
                  remoteTags |-> {t.gitTag : t \in AllTags(bs)},
                  localNotes |-> NotesOf(bs, legacy),
                  remoteNotes |-> NotesOf(bs, legacy)]
  /\ branch = <<>>
  /\ errors = <<>>
  /\ releases = <<>>
  /\ releaseToAdd = <<>>
  /\ lastRelease = <<>>
  /\ releaseType = UNDEFINED
  /\ nextRelease = <<>>
  /\ calls = <<>>
  /\ thrown = <<>>
  /\ raised = <<>>
  /\ failErrors = <<>>
  /\ logged = <<>>
  /\ outcome = "running"
  /\ result = <<>>
  /\ expansion = <<>>
  /\ validation = <<>>
  /\ tagging = <<>>
  /\ concurrent = <<>>

(***************************************************************************)
(* Control transfers.                                                      *)
(***************************************************************************)
\* an operation op performed in the given phase of the run, with its success
Call(phase, op, ok) == [phase |-> phase, op |-> op, ok |-> ok]

\* run throws: the default export catches and calls callFail
Throw(errs) ==
  /\ pc' = "callFail"
  /\ thrown' = errs
  /\ UNCHANGED <<raised, failErrors, logged, outcome, result>>

\* run returns false (value = <<>>) or an object: the default export unhooks
\* and returns the result
Return(value) ==
  /\ pc' = "done"
  /\ outcome' = IF value = <<>> THEN "false" ELSE "object"
  /\ result' = value
  /\ UNCHANGED <<thrown, raised, failErrors, logged>>

Goto(label) ==
  /\ pc' = label
  /\ UNCHANGED end

(***************************************************************************)
(* The default export up to the call of run, and run up to the plugins.    *)
(***************************************************************************)
\* getConfig(context, cliOptions) of the default export: a failure is caught by
\* the outer try only, where neither plugins nor callFail are available.
GetConfig ==
  /\ pc = "getConfig"
  /\ \E ok \in BOOLEAN :
       /\ calls' = Append(calls, Call("config", "getConfig", ok))
       /\ IF ok
          THEN Goto("run") /\ UNCHANGED logged
          ELSE /\ pc' = "done"
               /\ outcome' = "threw"
               /\ thrown' \in {<<[code |-> "Error", semanticRelease |-> FALSE]>>,
                               <<getError("EPLUGINSCONF")>>}
               /\ raised' = thrown'
               /\ logged' = Append(logged, thrown')
               /\ UNCHANGED <<failErrors, result>>
  /\ UNCHANGED <<env, options, repo, ctx>>

\* Faulty variant of RunStart: the pull-request exit is missing
RunStart_NoPullRequestExit ==
  /\ pc = "run"
  /\ options' = [options EXCEPT !.dryRun =
                   IF ~envCi.isCi /\ ~options.dryRun /\ ~options.noCi THEN TRUE ELSE @]
  /\ Goto("verify")
  /\ UNCHANGED <<env, repo, ctx, calls>>

\* Faulty variant of RunStart: dry-run is not forced outside of a CI environment
RunStart_NoForcedDryRun ==
  /\ pc = "run"
  /\ IF envCi.isCi /\ envCi.isPr /\ ~options.noCi /\ ~options.publishOnPr
     THEN Return(<<>>)
     ELSE Goto("verify")
  /\ UNCHANGED <<env, options, repo, ctx, calls>>

\* The forced dry-run and the pull-request exit
RunStart ==
  /\ pc = "run"
  /\ options' = [options EXCEPT !.dryRun =
                   IF ~envCi.isCi /\ ~options.dryRun /\ ~options.noCi THEN TRUE ELSE @]
  /\ IF envCi.isCi /\ envCi.isPr /\ ~options.noCi /\ ~options.publishOnPr
     THEN Return(<<>>)
     ELSE Goto("verify")
  /\ UNCHANGED <<env, repo, ctx, calls>>

\* await verify(context): the configuration errors are SemanticReleaseErrors
\* thrown together as one AggregateError
Verify ==
  /\ pc = "verify"
  /\ \E ok \in BOOLEAN :
       /\ calls' = Append(calls, Call("config", "verify", ok))
       /\ IF ok THEN Goto("getBranches")
          ELSE Throw(<<getError("EINVALIDTAGFORMAT"), getError("ETAGNOVERSION")>>)
  /\ UNCHANGED <<env, options, repo, ctx>>

\* Faulty variant of GetBranches: a CI branch that is not found is an error
GetBranches_ThrowsOnNoMatch ==
  /\ pc = "getBranches"
  /\ \E ok \in BOOLEAN :
       /\ calls' = Append(calls, Call("config", "getBranches", ok))
       /\ IF ~ok
          THEN /\ \E e \in {<<getError("ERELEASEBRANCHES")>>, <<ExecaError("git ls-remote")>>} :
                    Throw(e)
               /\ UNCHANGED branch
          ELSE IF CiBranch(envCi) \in DOMAIN git.branches
               THEN branch' = git.branches[CiBranch(envCi)] /\ Goto("verifyAuth")
               ELSE UNCHANGED branch /\ Throw(<<getError("ERELEASEBRANCHES")>>)
  /\ UNCHANGED <<env, options, repo, errors, releases, releaseToAdd, lastRelease,
                 releaseType,
                 nextRelease>>

\* getGitAuthUrl and getBranches, then the lookup of the CI branch
GetBranches ==
  /\ pc = "getBranches"
  /\ \E ok \in BOOLEAN :
       /\ calls' = Append(calls, Call("config", "getBranches", ok))
       /\ IF ~ok
          THEN /\ \E e \in {<<getError("ERELEASEBRANCHES")>>, <<ExecaError("git ls-remote")>>} :
                    Throw(e)
               /\ UNCHANGED branch
          ELSE IF CiBranch(envCi) \in DOMAIN git.branches
               THEN branch' = git.branches[CiBranch(envCi)] /\ Goto("verifyAuth")
               ELSE UNCHANGED branch /\ Return(<<>>)
  /\ UNCHANGED <<env, options, repo, errors, releases, releaseToAdd, lastRelease,
                 releaseType,
                 nextRelease>>

\* git push --dry-run HEAD:branch succeeds when the push is allowed and the
\* remote branch, if it exists, can be fast-forwarded to the local HEAD
verifyAuth ==
  /\ git.authorized
  /\ \/ git.remoteHead = ""
     \/ git.remoteHead = git.localHead
     \/ Ancestor(git.remoteHead, git.localHead)

\* getGitHead() === the head ls-remote prints for the branch (undefined if none)
isBranchUpToDate == git.localHead = git.remoteHead

VerifyAuth ==
  /\ pc = "verifyAuth"
  /\ calls' = Append(calls, Call("auth", "verifyAuth", verifyAuth))
  /\ IF verifyAuth THEN Goto("verifyConditions") ELSE Goto("isBranchUpToDate")
  /\ UNCHANGED <<env, options, repo, ctx>>

\* The catch of the probe: "no release" when the branch is not up to date,
\* EGITNOPERMISSION otherwise and when the check itself fails
AuthCatch ==
  /\ pc = "isBranchUpToDate"
  /\ \E ok \in BOOLEAN :
       /\ calls' = Append(calls, Call("auth", "isBranchUpToDate", ok))
       /\ IF ok /\ ~isBranchUpToDate
          THEN Return(<<>>)
          ELSE Throw(<<getError("EGITNOPERMISSION")>>)
  /\ UNCHANGED <<env, options, repo, ctx>>

\* Faulty variant of VerifyConditions: a failure of the step is swallowed
VerifyConditions_Swallowed ==
  /\ pc = "verifyConditions"
  /\ \E ok \in BOOLEAN : calls' = Append(calls, Call("verify", "verifyConditions", ok))
  /\ Goto("getReleaseToAdd")
  /\ errors' = <<>>
  /\ releases' = <<>>
  /\ UNCHANGED <<env, options, repo, branch, releaseToAdd, lastRelease, releaseType,
                 nextRelease>>

\* await plugins.verifyConditions(context), then errors = [] and releases = []
VerifyConditions ==
  /\ pc = "verifyConditions"
  /\ \/ /\ calls' = Append(calls, Call("verify", "verifyConditions", TRUE))
        /\ Goto("getReleaseToAdd")
     \/ /\ calls' = Append(calls, Call("verify", "verifyConditions", FALSE))
        /\ \E e \in PluginErrors : Throw(e)
  /\ errors' = <<>>
  /\ releases' = <<>>
  /\ UNCHANGED <<env, options, repo, branch, releaseToAdd, lastRelease, releaseType,
                 nextRelease>>

(***************************************************************************)
(* run: the add-channel path.                                              *)
(***************************************************************************)
\* Faulty variant of ChannelOf: the channel of the branch as configured
ChannelOf_Raw(b) == b.channel

\* context.branch.channel || null
ChannelOf(b) == IF Falsy(b.channel) THEN NULL ELSE b.channel

\* getTagHead(tagName): git rev-list -1 <tagName>, the commit of the tag
getTagHead(tagName) == <<"sha", tagName>>

\* const releaseToAdd = getReleaseToAdd(context)
GetReleaseToAdd ==
  /\ pc = "getReleaseToAdd"
  /\ \/ /\ releaseToAdd' = <<>>
        /\ Goto("getLastRelease")
     \/ \E i \in ReleasesToAdd(branch) :
          /\ releaseToAdd' =
               [currentRelease |-> [version |-> branch.tags[i].version,
                                    gitTag |-> branch.tags[i].gitTag,
                                    gitHead |-> branch.tags[i].gitTag,
                                    channels |-> branch.tags[i].channels],
                nextRelease |-> [version |-> branch.tags[i].version,
                                 gitTag |-> branch.tags[i].gitTag,
                                 name |-> branch.tags[i].gitTag,
                                 gitHead |-> branch.tags[i].gitTag,
                                 channel |-> ChannelOf(branch)]]
          /\ Goto("addGetTagHead")
  /\ UNCHANGED <<env, options, repo, branch, errors, releases, lastRelease, releaseType,
                 nextRelease, calls>>

\* Faulty variant of AddGetTagHead: the path goes on after the error was pushed
AddGetTagHead_ContinuesAfterError ==
  /\ pc = "addGetTagHead"
  /\ \E ok \in BOOLEAN :
       /\ calls' = Append(calls, Call("add", "getTagHead", ok))
       /\ IF ~ok
          THEN Throw(<<ExecaError("git rev-list")>>) /\ UNCHANGED errors
          ELSE IF /\ branch.mergeRange # <<>>
                  /\ ~SemverSatisfies(releaseToAdd.nextRelease.version, branch.mergeRange[1])
               THEN /\ errors' = Append(errors, getError("EINVALIDMAINTENANCEMERGE"))
                    /\ Goto("addGetCommits")
               ELSE UNCHANGED errors /\ Goto("addGetCommits")
       /\ releaseToAdd' =
            IF ok
            THEN [releaseToAdd EXCEPT !.nextRelease.gitHead = getTagHead(@),
                                      !.currentRelease.gitHead = getTagHead(@)]
            ELSE releaseToAdd
  /\ UNCHANGED <<env, options, repo, branch, releases, lastRelease, releaseType,
                 nextRelease>>

\* The two getTagHead calls and the merge-range validation
AddGetTagHead ==
  /\ pc = "addGetTagHead"
  /\ \E ok \in BOOLEAN :
       /\ calls' = Append(calls, Call("add", "getTagHead", ok))
       /\ IF ~ok
          THEN Throw(<<ExecaError("git rev-list")>>) /\ UNCHANGED errors
          ELSE IF /\ branch.mergeRange # <<>>
                  /\ ~SemverSatisfies(releaseToAdd.nextRelease.version, branch.mergeRange[1])
               THEN /\ errors' = Append(errors, getError("EINVALIDMAINTENANCEMERGE"))
                    /\ Goto("getLastRelease")
               ELSE UNCHANGED errors /\ Goto("addGetCommits")
       /\ releaseToAdd' =
            IF ok
            THEN [releaseToAdd EXCEPT !.nextRelease.gitHead = getTagHead(@),
                                      !.currentRelease.gitHead = getTagHead(@)]
            ELSE releaseToAdd
  /\ UNCHANGED <<env, options, repo, branch, releases, lastRelease, releaseType,
                 nextRelease>>

\* await getCommits({...context, lastRelease, nextRelease})
AddGetCommits ==
  /\ pc = "addGetCommits"
  /\ \E ok \in BOOLEAN :
       /\ calls' = Append(calls, Call("add", "getCommits", ok))
       /\ IF ok THEN Goto("addGenerateNotes") ELSE Throw(<<ExecaError("git log")>>)
  /\ UNCHANGED <<env, options, repo, ctx>>

\* nextRelease.notes = await plugins.generateNotes(...), then the dry-run test
AddGenerateNotes ==
  /\ pc = "addGenerateNotes"
  /\ \/ /\ calls' = Append(calls, Call("add", "generateNotes", TRUE))
        /\ releaseToAdd' = [releaseToAdd EXCEPT !.nextRelease = @ @@ [notes |-> "notes"]]
        /\ IF options.dryRun THEN Goto("addChannel") ELSE Goto("addAddNote")
     \/ /\ calls' = Append(calls, Call("add", "generateNotes", FALSE))
        /\ UNCHANGED releaseToAdd
        /\ \E e \in PluginErrors : Throw(e)
  /\ UNCHANGED <<env, options, repo, branch, errors, releases, lastRelease,
                 releaseType, nextRelease>>

\* Faulty variant of addNote: the note is added under the shared notes ref
addNote_SharedRef(note, ref) ==
  [repo EXCEPT !.localNotes = (<<LegacyNoteRef, ref>> :> note) @@ @]

\* addNote(note, ref): git notes --ref semantic-release-<ref> add -f
addNote(note, ref) == [repo EXCEPT !.localNotes = (<<NoteRef(ref), ref>> :> note) @@ @]

\* Faulty variant of push: git push without --tags
push_WithoutTags == repo

\* push(repositoryUrl): git push --tags
push == [repo EXCEPT !.remoteTags = @ \cup repo.localTags]

\* pushNotes(repositoryUrl, ref): git push refs/notes/semantic-release-<ref>
pushNotes(ref) ==
  [repo EXCEPT !.remoteNotes =
     [k \in {k \in DOMAIN repo.localNotes : k[1] = NoteRef(ref)} |-> repo.localNotes[k]] @@ @]

\* await addNote({channels: [...currentRelease.channels, nextRelease.channel]}, gitTag)
AddAddNote ==
  /\ pc = "addAddNote"
  /\ \E ok \in BOOLEAN :
       /\ calls' = Append(calls, Call("add", "addNote", ok))
       /\ IF ok
          THEN /\ repo' = addNote([channels |-> Append(releaseToAdd.currentRelease.channels,
                                                        releaseToAdd.nextRelease.channel)],
                                  releaseToAdd.nextRelease.gitTag)
               /\ Goto("addPush")
          ELSE UNCHANGED repo /\ Throw(<<ExecaError("git notes add")>>)
  /\ UNCHANGED <<env, options, ctx>>

\* await push(options.repositoryUrl)
AddPush ==
  /\ pc = "addPush"
  /\ \E ok \in BOOLEAN :
       /\ calls' = Append(calls, Call("add", "push", ok))
       /\ IF ok THEN repo' = push /\ Goto("addPushNotes")
          ELSE UNCHANGED repo /\ Throw(<<ExecaError("git push")>>)
  /\ UNCHANGED <<env, options, ctx>>

\* Faulty variant of AddPushNotes: the note ref of the tag is not pushed
AddPushNotes_Skipped ==
  /\ pc = "addPushNotes"
  /\ Goto("addChannel")
  /\ UNCHANGED <<env, options, repo, ctx, calls>>

\* await pushNotes(options.repositoryUrl, nextRelease.gitTag)
AddPushNotes ==
  /\ pc = "addPushNotes"
  /\ \E ok \in BOOLEAN :
       /\ calls' = Append(calls, Call("add", "pushNotes", ok))
       /\ IF ok THEN repo' = pushNotes(releaseToAdd.nextRelease.gitTag) /\ Goto("addChannel")
          ELSE UNCHANGED repo /\ Throw(<<ExecaError("git push")>>)
  /\ UNCHANGED <<env, options, ctx>>

\* context.branch.tags.push({version, channel, gitTag, gitHead}), then
\* releases = await plugins.addChannel(...) and context.releases.push(...releases)
AddChannel ==
  /\ pc = "addChannel"
  /\ branch' = [branch EXCEPT !.tags =
                  Append(@, [version |-> releaseToAdd.nextRelease.version,
                             channel |-> releaseToAdd.nextRelease.channel,
                             gitTag |-> releaseToAdd.nextRelease.gitTag,
                             gitHead |-> releaseToAdd.nextRelease.gitHead])]
  /\ \/ \E rs \in PluginReleases(releaseToAdd.nextRelease.gitTag) :
          /\ calls' = Append(calls, Call("add", "addChannel", TRUE))
          /\ releases' = releases \o rs
          /\ Goto("addSuccess")
     \/ /\ calls' = Append(calls, Call("add", "addChannel", FALSE))
        /\ UNCHANGED releases
        /\ \E e \in PluginErrors : Throw(e)
  /\ UNCHANGED <<env, options, repo, errors, releaseToAdd, lastRelease, releaseType,
                 nextRelease>>

\* await plugins.success({...context, lastRelease, commits, nextRelease, releases})
AddSuccess ==
  /\ pc = "addSuccess"
  /\ \/ /\ calls' = Append(calls, Call("add", "success", TRUE))
        /\ Goto("getLastRelease")
     \/ /\ calls' = Append(calls, Call("add", "success", FALSE))
        /\ \E e \in PluginErrors : Throw(e)
  /\ UNCHANGED <<env, options, repo, ctx>>

(***************************************************************************)
(* run: the new-release path.                                              *)
(***************************************************************************)
\* The throw of the aggregated errors, else context.lastRelease =
\* getLastRelease(context) with its gitHead resolved by getTagHead
GetLastRelease ==
  /\ pc = "getLastRelease"
  /\ IF Len(errors) > 0
     THEN Throw(errors) /\ UNCHANGED <<lastRelease, calls>>
     ELSE IF getLastRelease(branch) = <<>>
          THEN /\ lastRelease' = <<>>
               /\ UNCHANGED calls
               /\ Goto("getCommits")
          ELSE \E ok \in BOOLEAN :
                 /\ calls' = Append(calls, Call("last", "getTagHead", ok))
                 /\ IF ok
                    THEN /\ lastRelease' = [getLastRelease(branch) EXCEPT
                                              !.gitHead = getTagHead(@)]
                         /\ Goto("getCommits")
                    ELSE /\ lastRelease' = getLastRelease(branch)
                         /\ Throw(<<ExecaError("git rev-list")>>)
  /\ UNCHANGED <<env, options, repo, branch, errors, releases, releaseToAdd,
                 releaseType,
                 nextRelease>>

\* context.commits = await getCommits(context)
GetCommits ==
  /\ pc = "getCommits"
  /\ \E ok \in BOOLEAN :
       /\ calls' = Append(calls, Call("last", "getCommits", ok))
       /\ IF ok THEN Goto("analyzeCommits") ELSE Throw(<<ExecaError("git log")>>)
  /\ UNCHANGED <<env, options, repo, ctx>>

\* Faulty variant of NoReleaseResult: the accumulated releases are dropped
NoReleaseResult_AlwaysFalse == <<>>

\* The value run returns when no release type was found
NoReleaseResult == IF Len(releases) > 0 THEN [releases |-> releases] ELSE <<>>

\* nextRelease = {type: await plugins.analyzeCommits(context), channel,
\* gitHead: await getGitHead()}, and the exit when there is no type
AnalyzeCommits ==
  /\ pc = "analyzeCommits"
  /\ \/ /\ calls' = Append(calls, Call("new", "analyzeCommits", FALSE))
        /\ UNCHANGED <<releaseType, nextRelease>>
        /\ \E e \in PluginErrors : Throw(e)
     \/ \E type \in ReleaseTypes \cup {NULL} :
          /\ releaseType' = type
          /\ \/ /\ calls' = calls \o <<Call("new", "analyzeCommits", TRUE),
                                        Call("new", "getGitHead", FALSE)>>
                /\ UNCHANGED nextRelease
                /\ Throw(<<ExecaError("git rev-parse")>>)
             \/ /\ calls' = calls \o <<Call("new", "analyzeCommits", TRUE),
                                        Call("new", "getGitHead", TRUE)>>
                /\ IF type = NULL
                   THEN UNCHANGED nextRelease /\ Return(NoReleaseResult)
                   ELSE /\ nextRelease' = [type |-> type, channel |-> ChannelOf(branch),
                                           gitHead |-> git.localHead]
                        /\ Goto("getNextVersion")
  /\ UNCHANGED <<env, options, repo, branch, errors, releases, releaseToAdd,
                 lastRelease>>

\* Faulty variant of GetNextVersion: the version is validated against the
\* range on maintenance branches only
GetNextVersion_MaintenanceOnly ==
  /\ pc = "getNextVersion"
  /\ LET version == getNextVersion(branch, nextRelease.type, nextRelease.channel, lastRelease,
                                   packageVersion, options)
     IN /\ nextRelease' = nextRelease @@ [version |-> version, gitTag |-> makeTag(version),
                                          name |-> makeTag(version)]
        /\ IF branch.type = "maintenance" /\ ~SemverSatisfies(version, branch.range)
           THEN /\ calls' = calls \o <<Call("new", "getNextVersion", TRUE),
                                       Call("new", "validateRange", FALSE)>>
                /\ Throw(<<getError("EINVALIDNEXTVERSION")>>)
           ELSE /\ calls' = calls \o <<Call("new", "getNextVersion", TRUE),
                                       Call("new", "validateRange", TRUE)>>
                /\ Goto("verifyRelease")
  /\ UNCHANGED <<env, options, repo, branch, errors, releases, releaseToAdd,
                 lastRelease, releaseType>>

\* nextRelease.version, gitTag and name, then the validation of the version
\* against the range of a branch that is not a prerelease branch
GetNextVersion ==
  /\ pc = "getNextVersion"
  /\ LET version == getNextVersion(branch, nextRelease.type, nextRelease.channel, lastRelease,
                                   packageVersion, options)
     IN /\ nextRelease' = nextRelease @@ [version |-> version, gitTag |-> makeTag(version),
                                          name |-> makeTag(version)]
        /\ IF branch.type # "prerelease" /\ ~SemverSatisfies(version, branch.range)
           THEN /\ calls' = calls \o <<Call("new", "getNextVersion", TRUE),
                                       Call("new", "validateRange", FALSE)>>
                /\ Throw(<<getError("EINVALIDNEXTVERSION")>>)
           ELSE /\ calls' = calls \o <<Call("new", "getNextVersion", TRUE),
                                       Call("new", "validateRange", TRUE)>>
                /\ Goto("verifyRelease")
  /\ UNCHANGED <<env, options, repo, branch, errors, releases, releaseToAdd,
                 lastRelease, releaseType>>

\* Faulty variant of VerifyRelease: the step is not awaited, its failure is lost
VerifyRelease_NotAwaited ==
  /\ pc = "verifyRelease"
  /\ \E ok \in BOOLEAN : calls' = Append(calls, Call("new", "verifyRelease", ok))
  /\ Goto("generateNotes")
  /\ UNCHANGED <<env, options, repo, ctx>>

\* await plugins.verifyRelease(context)
VerifyRelease ==
  /\ pc = "verifyRelease"
  /\ \/ /\ calls' = Append(calls, Call("new", "verifyRelease", TRUE))
        /\ Goto("generateNotes")
     \/ /\ calls' = Append(calls, Call("new", "verifyRelease", FALSE))
        /\ \E e \in PluginErrors : Throw(e)
  /\ UNCHANGED <<env, options, repo, ctx>>

\* Faulty variant of GenerateNotes: the notes are appended to the name of
\* the release too
GenerateNotes_RenamesRelease ==
  /\ pc = "generateNotes"
  /\ \/ /\ calls' = Append(calls, Call("new", "generateNotes", TRUE))
        /\ nextRelease' = [nextRelease EXCEPT !.name = @ \o <<"notes">>] @@ [notes |-> "notes"]
        /\ Goto("prepare")
     \/ /\ calls' = Append(calls, Call("new", "generateNotes", FALSE))
        /\ UNCHANGED nextRelease
        /\ \E e \in PluginErrors : Throw(e)
  /\ UNCHANGED <<env, options, repo, branch, errors, releases, releaseToAdd,
                 lastRelease, releaseType>>

\* nextRelease.notes = await plugins.generateNotes(context)
GenerateNotes ==
  /\ pc = "generateNotes"
  /\ \/ /\ calls' = Append(calls, Call("new", "generateNotes", TRUE))
        /\ nextRelease' = nextRelease @@ [notes |-> "notes"]
        /\ Goto("prepare")
     \/ /\ calls' = Append(calls, Call("new", "generateNotes", FALSE))
        /\ UNCHANGED nextRelease
        /\ \E e \in PluginErrors : Throw(e)
  /\ UNCHANGED <<env, options, repo, branch, errors, releases, releaseToAdd,
                 lastRelease, releaseType>>

\* Faulty variant of Prepare: the dry-run test is missing
Prepare_NoDryRunTest ==
  /\ pc = "prepare"
  /\ \/ /\ calls' = Append(calls, Call("new", "prepare", TRUE))
        /\ Goto("tag")
     \/ /\ calls' = Append(calls, Call("new", "prepare", FALSE))
        /\ \E e \in PluginErrors : Throw(e)
  /\ UNCHANGED <<env, options, repo, ctx>>

\* await plugins.prepare(context), then the dry-run test
Prepare ==
  /\ pc = "prepare"
  /\ \/ /\ calls' = Append(calls, Call("new", "prepare", TRUE))
        /\ IF options.dryRun THEN Goto("publish") ELSE Goto("tag")
     \/ /\ calls' = Append(calls, Call("new", "prepare", FALSE))
        /\ \E e \in PluginErrors : Throw(e)
  /\ UNCHANGED <<env, options, repo, ctx>>

\* tag(tagName, ref): git tag <tagName> <ref>
tag(tagName) == [repo EXCEPT !.localTags = @ \cup {tagName}]

\* await tag(nextRelease.gitTag, nextRelease.gitHead): fails on an existing tag
TagRelease ==
  /\ pc = "tag"
  /\ \E ok \in IF nextRelease.gitTag \in repo.localTags THEN {FALSE} ELSE BOOLEAN :
       /\ calls' = Append(calls, Call("new", "tag", ok))
       /\ IF ok THEN repo' = tag(nextRelease.gitTag) /\ Goto("addNote")
          ELSE UNCHANGED repo /\ Throw(<<ExecaError("git tag")>>)
  /\ UNCHANGED <<env, options, ctx>>

\* await addNote({channels: [nextRelease.channel]}, nextRelease.gitTag)
AddNote ==
  /\ pc = "addNote"
  /\ \E ok \in BOOLEAN :
       /\ calls' = Append(calls, Call("new", "addNote", ok))
       /\ IF ok
          THEN repo' = addNote([channels |-> <<nextRelease.channel>>], nextRelease.gitTag) /\ Goto("push")
          ELSE UNCHANGED repo /\ Throw(<<ExecaError("git notes add")>>)
  /\ UNCHANGED <<env, options, ctx>>

\* await push(options.repositoryUrl)
Push ==
  /\ pc = "push"
  /\ \E ok \in BOOLEAN :
       /\ calls' = Append(calls, Call("new", "push", ok))
       /\ IF ok THEN repo' = push /\ Goto("pushNotes")
          ELSE UNCHANGED repo /\ Throw(<<ExecaError("git push")>>)
  /\ UNCHANGED <<env, options, ctx>>

\* await pushNotes(options.repositoryUrl, nextRelease.gitTag)
PushNotes ==
  /\ pc = "pushNotes"
  /\ \E ok \in BOOLEAN :
       /\ calls' = Append(calls, Call("new", "pushNotes", ok))
       /\ IF ok THEN repo' = pushNotes(nextRelease.gitTag) /\ Goto("publish")
          ELSE UNCHANGED repo /\ Throw(<<ExecaError("git push")>>)
  /\ UNCHANGED <<env, options, ctx>>

\* releases = await plugins.publish(context); context.releases.push(...releases)
Publish ==
  /\ pc = "publish"
  /\ \/ \E rs \in PluginReleases(nextRelease.gitTag) :
          /\ calls' = Append(calls, Call("new", "publish", TRUE))
          /\ releases' = releases \o rs
          /\ Goto("success")
     \/ /\ calls' = Append(calls, Call("new", "publish", FALSE))
        /\ UNCHANGED releases
        /\ \E e \in PluginErrors : Throw(e)
  /\ UNCHANGED <<env, options, repo, branch, errors, releaseToAdd, lastRelease,
                 releaseType, nextRelease>>

\* await plugins.success({...context, releases}), then
\* return pick(context, ["lastRelease", "commits", "nextRelease", "releases"])
Success ==
  /\ pc = "success"
  /\ \/ /\ calls' = Append(calls, Call("new", "success", TRUE))
        /\ Return([lastRelease |-> lastRelease, commits |-> "commits",
                    nextRelease |-> nextRelease, releases |-> releases])
     \/ /\ calls' = Append(calls, Call("new", "success", FALSE))
        /\ \E e \in PluginErrors : Throw(e)
  /\ UNCHANGED <<env, options, repo, ctx>>

(***************************************************************************)
(* The failure path of the default export.                                 *)
(***************************************************************************)
\* Faulty variant of SemanticReleaseErrors: the filter is missing
SemanticReleaseErrors_Unfiltered(err) == err

\* extractErrors(err).filter((err) => err.semanticRelease)
SemanticReleaseErrors(err) == SelectSeq(err, LAMBDA e : e.semanticRelease)

\* Faulty variant of Rethrown: the error of the fail step is not caught
Rethrown_FailError(error, failError) == IF failError # <<>> THEN failError ELSE error

\* catch (error) { await callFail(context, plugins, error); throw error; } where
\* callFail catches the error of plugins.fail (failError, <<>> if it succeeded)
Rethrown(error, failError) == error

\* callFail(context, plugins, err), then logErrors, unhook and the rethrow of
\* the error run threw
callFail ==
  /\ pc = "callFail"
  /\ IF Len(SemanticReleaseErrors(thrown)) > 0
     THEN \/ /\ calls' = Append(calls, Call("fail", "fail", TRUE))
             /\ failErrors' = Append(failErrors, SemanticReleaseErrors(thrown))
             /\ logged' = Append(logged, thrown)
             /\ raised' = Rethrown(thrown, <<>>)
          \/ \E e \in {<<[code |-> "Error", semanticRelease |-> FALSE]>>} :
               /\ calls' = Append(calls, Call("fail", "fail", FALSE))
               /\ failErrors' = Append(failErrors, SemanticReleaseErrors(thrown))
               /\ logged' = logged \o <<e, thrown>>
               /\ raised' = Rethrown(thrown, e)
     ELSE /\ logged' = Append(logged, thrown)
          /\ raised' = Rethrown(thrown, <<>>)
          /\ UNCHANGED <<calls, failErrors>>
  /\ pc' = "done"
  /\ outcome' = "threw"
  /\ UNCHANGED <<env, options, repo, ctx, thrown, result>>

Next ==
  \/ GetConfig \/ RunStart \/ Verify \/ GetBranches \/ VerifyAuth \/ AuthCatch
  \/ VerifyConditions
  \/ GetReleaseToAdd \/ AddGetTagHead \/ AddGetCommits \/ AddGenerateNotes
  \/ AddAddNote \/ AddPush \/ AddPushNotes \/ AddChannel \/ AddSuccess
  \/ GetLastRelease \/ GetCommits \/ AnalyzeCommits \/ GetNextVersion
  \/ VerifyRelease \/ GenerateNotes \/ Prepare
  \/ TagRelease \/ AddNote \/ Push \/ PushNotes \/ Publish \/ Success
  \/ callFail

Spec == Init /\ [][Next]_vars

(***************************************************************************)
(* The version calculator on its own: run at the call of getNextVersion    *)
(* (index.js:185), for the contexts of lib/get-next-version.js.            *)
(***************************************************************************)
\* The tags of the branch of the context
NextVersionTags ==
  {<<>>,
   <<Tag(V(1, 0, 0, <<>>), <<NULL>>)>>,
   <<Tag(V(0, 0, 1, <<>>), <<NULL>>)>>,
   <<Tag(V(1, 0, 0, <<>>), <<NULL>>), Tag(V(1, 0, 1, <<"beta", 1>>), <<"beta">>)>>,
   <<Tag(V(1, 0, 0, <<>>), <<NULL>>), Tag(V(1, 1, 0, <<"beta", 1>>), <<"beta">>)>>,
   <<Tag(V(1, 0, 1, <<"beta", 1>>), <<"beta">>)>>,
   <<Tag(V(1, 0, 0, <<"beta", 0>>), <<"beta">>)>>,
   <<Tag(V(0, 0, 1, <<>>), <<NULL>>), Tag(V(0, 1, 0, <<"beta", 1>>), <<"beta">>)>>,
   <<Tag(V(1, 0, 0, <<>>), <<NULL>>), Tag(V(1, 1, 0, <<>>), <<NULL>>),
     Tag(V(1, 1, 0, <<"beta", 1>>), <<NULL, "beta">>)>>,
   <<Tag(V(1, 0, 0, <<>>), <<NULL>>), Tag(V(1, 0, 1, <<"beta", 1>>), <<"beta">>),
     Tag(V(2, 0, 0, <<"alpha", 1>>), <<"alpha">>)>>,
   <<Tag(V(0, 0, 1, <<>>), <<NULL>>), Tag(V(0, 1, 0, <<"beta", 1>>), <<"beta">>),
     Tag(V(1, 0, 1, <<"alpha", 1>>), <<"alpha">>)>>,
   <<Tag(V(1, 0, 0, <<"beta", 1>>), <<"beta">>),
     Tag(V(1, 0, 0, <<"beta", 2>>), <<"alpha", "beta">>),
     Tag(V(1, 0, 0, <<"alpha", 1>>), <<"alpha", "beta">>)>>}

\* The branch of the context: a release, a maintenance or a prerelease branch
NextVersionBranches ==
  {Branch("master", "release", UNDEFINED, UNDEFINED, Unbounded, <<>>, t) :
     t \in NextVersionTags}
  \cup {Branch("1.x", "maintenance", "1.x", UNDEFINED, Below2, <<Below2>>, t) :
     t \in NextVersionTags}
  \cup {Branch(n, "prerelease", n, n, Unbounded, <<>>, t) :
     n \in {"alpha", "beta"}, t \in NextVersionTags}

\* context.lastRelease: {} or the release of a tag of the branch
LastReleaseOf(t) ==
  [version |-> t.version, gitTag |-> t.gitTag, gitHead |-> getTagHead(t.gitTag),
   name |-> t.gitTag, channels |-> t.channels, hasChannels |-> TRUE]

\* The tags context.lastRelease may be the release of: a prerelease on a
\* prerelease branch only, and not lower than a tag getLastRelease considers
LastReleases(b) ==
  {i \in DOMAIN b.tags :
     /\ b.type = "prerelease" \/ b.tags[i].version.pre = <<>>
     /\ \A j \in LastReleaseCandidates(b) : ~SemverLt(b.tags[i].version, b.tags[j].version)}

\* context.options as far as getNextVersion reads it
NextVersionOptions(respect, first, bases) ==
  [dryRun |-> TRUE, noCi |-> FALSE, publishOnPr |-> FALSE]
    @@ (IF respect THEN [respectPackageJsonVersion |-> TRUE] ELSE <<>>)
    @@ (IF first THEN [firstRelease |-> V(0, 1, 0, <<>>)] ELSE <<>>)
    @@ (IF bases = {} THEN <<>>
        ELSE [prereleaseIdentifierBase |-> CHOOSE base \in bases : TRUE])

InitNextVersion ==
  /\ pc = "getNextVersion"
  /\ envCi = [isCi |-> TRUE, isPr |-> FALSE, branch |-> "master", prBranch |-> UNDEFINED]
  /\ \E respect \in BOOLEAN, first \in BOOLEAN, bases \in {{}, {0}, {1}} :
       cliOptions = NextVersionOptions(respect, first, bases)
  /\ options = cliOptions
  /\ packageVersion = V(2, 3, 4, <<>>)
  /\ branch \in NextVersionBranches
  /\ git = [authorized |-> TRUE, localHead |-> "c2", remoteHead |-> "c2",
            branches |-> [n \in {branch.name} |-> branch], legacyNotes |-> FALSE]
  /\ repo = [localTags |-> {t.gitTag : t \in AllTags(git.branches)},
             remoteTags |-> {t.gitTag : t \in AllTags(git.branches)},
             localNotes |-> NotesOf(git.branches, git.legacyNotes),
             remoteNotes |-> NotesOf(git.branches, git.legacyNotes)]
  /\ errors = <<>>
  /\ releases = <<>>
  /\ releaseToAdd = <<>>
  /\ lastRelease \in {<<>>} \cup {LastReleaseOf(branch.tags[i]) : i \in LastReleases(branch)}
  /\ releaseType \in ReleaseTypes
  /\ nextRelease = [type |-> releaseType, channel |-> ChannelOf(branch),
                    gitHead |-> git.localHead]
  /\ calls = <<>>
  /\ thrown = <<>>
  /\ raised = <<>>
  /\ failErrors = <<>>
  /\ logged = <<>>
  /\ outcome = "running"
  /\ result = <<>>
  /\ expansion = <<>>
  /\ validation = <<>>
  /\ tagging = <<>>
  /\ concurrent = <<>>

NextNextVersion == GetNextVersion

SpecNextVersion == InitNextVersion /\ [][NextNextVersion]_vars

(***************************************************************************)
(* The state of the invocation while a function of lib/ is applied alone.  *)
(***************************************************************************)
NoInvocation ==
  /\ envCi = [isCi |-> TRUE, isPr |-> FALSE, branch |-> "master", prBranch |-> UNDEFINED]
  /\ cliOptions = [dryRun |-> FALSE, noCi |-> FALSE, publishOnPr |-> FALSE]
  /\ options = cliOptions
  /\ packageVersion = V(0, 0, 0, <<>>)
  /\ git = [authorized |-> TRUE, localHead |-> "c2", remoteHead |-> "c2",
            branches |-> <<>>, legacyNotes |-> FALSE]
  /\ repo = [localTags |-> {}, remoteTags |-> {}, localNotes |-> <<>>, remoteNotes |-> <<>>]
  /\ branch = <<>>
  /\ errors = <<>>
  /\ releases = <<>>
  /\ releaseToAdd = <<>>
  /\ lastRelease = <<>>
  /\ releaseType = UNDEFINED
  /\ nextRelease = <<>>
  /\ calls = <<>>
  /\ thrown = <<>>
  /\ raised = <<>>
  /\ failErrors = <<>>
  /\ logged = <<>>
  /\ outcome = "running"
  /\ result = <<>>
  /\ concurrent = <<>>

invocation == <<envCi, cliOptions, packageVersion, options, git, repo, ctx, calls, end,
                concurrent>>

(***************************************************************************)
(* lib/branches/expand.js                                                  *)
(***************************************************************************)
JSTRUE == "true"

isString(value) == value \notin {UNDEFINED, NULL, JSFALSE, JSTRUE}

MaxRemote == 3

MaxPatterns == 3

\* The names git ls-remote --heads may list
RemoteNames == {"master", "1.x", "pr-1"}

\* The CI branches of a run of expand
ExpandCiBranches == {"master", "beta", "pr-1", "pr-2"}

NameTemplate == "${name}"

\* The branch definitions of the configuration
ExpandPatterns ==
  {[name |-> "master"],
   [name |-> "+([0-9])?(.{+([0-9]),x}).x", range |-> NameTemplate, channel |-> NameTemplate],
   [name |-> "*", channel |-> NameTemplate, prerelease |-> UNDEFINED],
   [name |-> "pr-*", prerelease |-> NameTemplate, channel |-> JSFALSE],
   [name |-> "beta", prerelease |-> JSTRUE, channel |-> "next"]}

\* The lists without repetition of at most n elements of S
RECURSIVE Lists(_, _)
Lists(S, n) ==
  IF n = 0 THEN {<<>>}
  ELSE {<<>>} \cup UNION {{<<x>> \o l : l \in {m \in Lists(S, n - 1) :
                                                  \A i \in DOMAIN m : m[i] # x}} : x \in S}

\* The lists of at most n elements of S
RECURSIVE Tuples(_, _)
Tuples(S, n) ==
  IF n = 0 THEN {<<>>} ELSE {<<>>} \cup {<<x>> \o l : x \in S, l \in Tuples(S, n - 1)}

includes(array, value) == \E i \in DOMAIN array : array[i] = value

\* The names of the repository a glob of micromatch matches
Glob(pattern) ==
  CASE pattern = "*" -> RemoteNames \cup ExpandCiBranches
    [] pattern = "pr-*" -> {"pr-1", "pr-2"}
    [] pattern = "+([0-9])?(.{+([0-9]),x}).x" -> {"1.x"}
    [] OTHER -> {pattern}

\* micromatch(list, pattern): the elements of the list the glob matches
micromatch(list, pattern) == SelectSeq(list, LAMBDA name : name \in Glob(pattern))

\* Faulty variant of remove: the array keeps the removed elements
remove_KeepsArray(array, names) ==
  [removed |-> SelectSeq(array, LAMBDA name : includes(names, name)),
   array |-> array]

\* remove(array, predicate) of lodash with the predicate "is one of names":
\* the removed elements, and the array without them
remove(array, names) ==
  [removed |-> SelectSeq(array, LAMBDA name : includes(names, name)),
   array |-> SelectSeq(array, LAMBDA name : ~includes(names, name))]

\* template(value)({name})
template(value, name) == IF value = NameTemplate THEN name ELSE value

\* {name, ...mapValues(omit(branch, "name"), (value) => isString(value) ? ... : value)}
ExpandedBranch(b, name) ==
  [k \in DOMAIN b \cup {"name"} |->
     IF k = "name" THEN name
     ELSE IF isString(b[k]) THEN template(b[k], name) ELSE b[k]]

\* branches.reduce(...) from the branch definition i on, with the accumulator acc
RECURSIVE reduce(_, _, _, _)
reduce(branches, i, gitBranches, acc) ==
  IF i > Len(branches) THEN [branches |-> acc, gitBranches |-> gitBranches]
  ELSE LET r == remove(gitBranches, micromatch(gitBranches, branches[i].name))
       IN reduce(branches, i + 1, r.array,
                 acc \o [j \in DOMAIN r.removed |-> ExpandedBranch(branches[i], r.removed[j])])

InitExpand ==
  /\ pc = "expandGetBranches"
  /\ NoInvocation
  /\ \E remote \in Lists(RemoteNames, MaxRemote), ci \in ExpandCiBranches,
        publishOnPr \in BOOLEAN, branches \in Tuples(ExpandPatterns, MaxPatterns) :
       expansion = [remote |-> remote, ciBranch |-> ci, publishOnPr |-> publishOnPr,
                    branches |-> branches, gitBranches |-> <<>>, pool |-> <<>>,
                    result |-> <<>>]
  /\ validation = <<>>
  /\ tagging = <<>>

\* Faulty variant of ExpandGetBranches: the CI branch is never added
ExpandGetBranches_NoCiBranch ==
  /\ pc = "expandGetBranches"
  /\ \/ /\ expansion' = [expansion EXCEPT !.gitBranches = expansion.remote,
                                           !.pool = expansion.remote]
        /\ pc' = "expandReduce"
     \/ /\ pc' = "expandFailed"
        /\ UNCHANGED expansion
  /\ UNCHANGED <<invocation, validation, tagging>>

\* let gitBranches = await getBranches(repositoryUrl, {cwd}), which rejects
\* when git ls-remote fails, then the CI branch of a run with publishOnPr
ExpandGetBranches ==
  /\ pc = "expandGetBranches"
  /\ \/ LET gitBranches ==
              IF expansion.publishOnPr /\ ~includes(expansion.remote, expansion.ciBranch)
              THEN expansion.remote \o <<expansion.ciBranch>>
              ELSE expansion.remote
        IN /\ expansion' = [expansion EXCEPT !.gitBranches = gitBranches, !.pool = gitBranches]
           /\ pc' = "expandReduce"
     \/ /\ pc' = "expandFailed"
        /\ UNCHANGED expansion
  /\ UNCHANGED <<invocation, validation, tagging>>

\* return branches.reduce(...)
ExpandReduce ==
  /\ pc = "expandReduce"
  /\ LET r == reduce(expansion.branches, 1, expansion.gitBranches, <<>>)
     IN expansion' = [expansion EXCEPT !.gitBranches = r.gitBranches, !.result = r.branches]
  /\ pc' = "expanded"
  /\ UNCHANGED <<invocation, validation, tagging>>

NextExpand == ExpandGetBranches \/ ExpandReduce

SpecExpand == InitExpand /\ [][NextExpand]_vars

(***************************************************************************)
(* lib/definitions/branches.js                                             *)
(***************************************************************************)
isNil(value) == value \in {UNDEFINED, NULL}

\* isMaintenanceRange(range): the value is formatted like N.N.x or N.x
isMaintenanceRange(range) == range \in {"1.x", "2.x", "1.2.x"}

\* semver.validRange(range): the normalised range, or null for a value that
\* is not a range
validRange(range) ==
  CASE range \in {"1.x", "1.x.x"} -> ">=1.0.0 <2.0.0-0"
    [] range = "2.x" -> ">=2.0.0 <3.0.0-0"
    [] range = "1.2.x" -> ">=1.2.0 <1.3.0-0"
    [] OTHER -> NULL

\* maintenance.filter
maintenance_filter(b) ==
  (~isNil(b.range) /\ b.range # JSFALSE) \/ isMaintenanceRange(b.name)

\* Faulty variant of maintenance_branchesValidator: the ranges are compared
\* as they are written
maintenance_branchesValidator_Raw(branches) ==
  Cardinality({branches[i].range : i \in DOMAIN branches}) = Len(branches)

\* maintenance.branchesValidator
maintenance_branchesValidator(branches) ==
  Cardinality({validRange(branches[i].range) : i \in DOMAIN branches}) = Len(branches)

\* prerelease.filter
prerelease_filter(b) == ~isNil(b.prerelease) /\ b.prerelease # JSFALSE

\* prerelease.branchesValidator
prerelease_branchesValidator(branches) ==
  Cardinality({branches[i].prerelease : i \in DOMAIN branches}) = Len(branches)

\* release.filter
release_filter(b) == ~maintenance_filter(b) /\ ~prerelease_filter(b)

\* Faulty variant of release_branchesValidator: no upper limit
release_branchesValidator_NoLimit(branches) == Len(branches) > 0

\* release.branchesValidator
release_branchesValidator(branches) == Len(branches) <= 3 /\ Len(branches) > 0

MaxBranches == 4

BranchDefinition(name, range, prerelease) ==
  [name |-> name, range |-> range, prerelease |-> prerelease]

\* Every combination of the name, range and prerelease of a branch
BranchDefinitions ==
  {BranchDefinition(name, range, prerelease) :
     name \in {"master", "1.x", "1.2.x", "beta", "legacy"},
     range \in {UNDEFINED, NULL, JSFALSE, "1.x", "1.x.x", "2.x", "latest"},
     prerelease \in {UNDEFINED, NULL, JSFALSE, JSTRUE, "beta", "alpha"}}

\* The branches of a configuration: release branches, maintenance branches
\* with their range and prerelease branches with their identifier
ConfiguredBranches ==
  {BranchDefinition("master", UNDEFINED, UNDEFINED),
   BranchDefinition("main", UNDEFINED, UNDEFINED),
   BranchDefinition("next", UNDEFINED, UNDEFINED),
   BranchDefinition("next-major", UNDEFINED, UNDEFINED),
   BranchDefinition("1.x", "1.x", UNDEFINED),
   BranchDefinition("2.x", "2.x", UNDEFINED),
   BranchDefinition("legacy", "1.x.x", UNDEFINED),
   BranchDefinition("lts", "latest", UNDEFINED),
   BranchDefinition("old", "stable", UNDEFINED),
   BranchDefinition("beta", UNDEFINED, "beta"),
   BranchDefinition("alpha", UNDEFINED, JSTRUE),
   BranchDefinition("rc", UNDEFINED, "beta")}

InitDefinitions ==
  /\ pc = "filter"
  /\ NoInvocation
  /\ expansion = <<>>
  /\ \E branches \in {<<b>> : b \in BranchDefinitions}
                       \cup Lists(ConfiguredBranches, MaxBranches) :
       validation = [branches |-> branches, byType |-> <<>>, valid |-> <<>>]
  /\ tagging = <<>>

\* branches.filter(filter) for the filter of each type
FilterBranches ==
  /\ pc = "filter"
  /\ validation' =
       [validation EXCEPT !.byType =
          [maintenance |-> SelectSeq(validation.branches, maintenance_filter),
           prerelease |-> SelectSeq(validation.branches, prerelease_filter),
           release |-> SelectSeq(validation.branches, release_filter)]]
  /\ pc' = "validate"
  /\ UNCHANGED <<invocation, expansion, tagging>>

\* branchesValidator(branches) for the branches of each type
ValidateBranches ==
  /\ pc = "validate"
  /\ validation' =
       [validation EXCEPT !.valid =
          [maintenance |-> maintenance_branchesValidator(validation.byType.maintenance),
           prerelease |-> prerelease_branchesValidator(validation.byType.prerelease),
           release |-> release_branchesValidator(validation.byType.release)]]
  /\ pc' = "validated"
  /\ UNCHANGED <<invocation, expansion, tagging>>

NextDefinitions == FilterBranches \/ ValidateBranches

SpecDefinitions == InitDefinitions /\ [][NextDefinitions]_vars

(***************************************************************************)
(* lib/branches/get-tags.js                                                *)
(***************************************************************************)
\* A tag name and a tag format are lists of tokens: a text, a version (the
\* text of a valid semver) or, in a format, the variable ${version}
Text(text) == [text |-> text]

Ver(version) == [version |-> version]

VersionVariable == [variable |-> "version"]

MaxTags == 3

TagFormats ==
  {<<Text("v"), VersionVariable>>,
   <<VersionVariable>>,
   <<Text("pkg-"), VersionVariable, Text("_rel")>>}

\* The tags of the repository: v1.0.0, v1.1.0-beta.1, 2.0.0, vv1.2.0, vlatest,
\* pkg-1.0.0_rel, pkg-1.0.0_rel_old and v1.0.0_x
TagNames ==
  {<<Text("v"), Ver(V(1, 0, 0, <<>>))>>,
   <<Text("v"), Ver(V(1, 1, 0, <<"beta", 1>>))>>,
   <<Ver(V(2, 0, 0, <<>>))>>,
   <<Text("v"), Text("v"), Ver(V(1, 2, 0, <<>>))>>,
   <<Text("v"), Text("latest")>>,
   <<Text("pkg-"), Ver(V(1, 0, 0, <<>>)), Text("_rel")>>,
   <<Text("pkg-"), Ver(V(1, 0, 0, <<>>)), Text("_rel"), Text("_old")>>,
   <<Text("v"), Ver(V(1, 0, 0, <<>>)), Text("_x")>>}

PullRequestRef == "refs/pull/1/merge"

\* The branches get-tags is applied to
TaggedBranches ==
  {<<>>,
   <<[name |-> "master", channel |-> UNDEFINED]>>,
   <<[name |-> PullRequestRef, channel |-> "pr"], [name |-> "master", channel |-> UNDEFINED]>>}

\* The outcome of git notes show: the note, or the exit code of the failure
Shown(note) == [stdout |-> note]

NoNote == [exitCode |-> 1]

GitFailure == [exitCode |-> 128]

\* The notes of the tags under the shared ref and under the ref of the tag
NoteStores ==
  {[t \in TagNames |-> [legacy |-> NoNote, tag |-> NoNote]],
   [t \in TagNames |-> [legacy |-> NoNote, tag |-> Shown([channels |-> <<NULL, "next">>])]],
   [t \in TagNames |-> [legacy |-> Shown([channels |-> <<"next", "beta">>]),
                        tag |-> Shown([channels |-> <<NULL>>])]],
   [t \in TagNames |-> [legacy |-> Shown([channels |-> <<"next">>]),
                        tag |-> IF Len(t) = 1 THEN GitFailure ELSE NoNote]]}

Reverse(list) == [i \in DOMAIN list |-> list[Len(list) + 1 - i]]

\* tagRegexp: the texts before and after the variable of the format, for
\* ^<before>(.+)<after>
tagRegexp(tagFormat) ==
  LET i == CHOOSE i \in DOMAIN tagFormat :
             /\ tagFormat[i] = VersionVariable
             /\ \A j \in 1..(i - 1) : tagFormat[j] # VersionVariable
  IN [before |-> SubSeq(tagFormat, 1, i - 1), after |-> SubSeq(tagFormat, i + 1, Len(tagFormat))]

\* The lengths the group (.+) may take in a match of the tag
GroupLengths(tagName, regexp) ==
  LET b == Len(regexp.before)
      a == Len(regexp.after)
  IN IF Len(tagName) < b \/ SubSeq(tagName, 1, b) # regexp.before THEN {}
     ELSE {k \in 1..(Len(tagName) - b - a) : SubSeq(tagName, b + k + 1, b + k + a) = regexp.after}

\* Faulty variant of match: the group is the shortest possible
match_Shortest(tagName, regexp) ==
  LET lengths == GroupLengths(tagName, regexp)
  IN IF lengths = {} THEN <<>>
     ELSE SubSeq(tagName, Len(regexp.before) + 1,
                 Len(regexp.before) + CHOOSE k \in lengths : \A l \in lengths : k <= l)

\* const [, version] = tag.match(tagRegexp) || []: the group, the longest
\* possible, or <<>> for undefined
match(tagName, regexp) ==
  LET lengths == GroupLengths(tagName, regexp)
  IN IF lengths = {} THEN <<>>
     ELSE SubSeq(tagName, Len(regexp.before) + 1,
                 Len(regexp.before) + CHOOSE k \in lengths : \A l \in lengths : l <= k)

\* semver.clean(version) without its parse: the leading = and v are dropped
RECURSIVE clean(_)
clean(version) ==
  IF version # <<>> /\ Head(version) \in {Text("v"), Text("=")}
  THEN clean(Tail(version))
  ELSE version

\* A text that continues a valid semver as a prerelease identifier
PrereleaseText == Text("-beta")

\* semver.valid(version): the text is one valid semver, possibly continued
\* by prerelease identifiers
valid(version) ==
  /\ version # <<>>
  /\ DOMAIN version[1] = {"version"}
  /\ \A i \in 2..Len(version) : version[i] = PrereleaseText

Max(a, b) == IF a >= b THEN a ELSE b

\* merge(object, source) of lodash: the keys of both, an array of the source
\* merged index by index into the array of the object
merge(object, source) ==
  [k \in DOMAIN object \cup DOMAIN source |->
     IF k \notin DOMAIN source THEN object[k]
     ELSE IF k \notin DOMAIN object THEN source[k]
     ELSE [i \in 1..Max(Len(object[k]), Len(source[k])) |->
             IF i <= Len(source[k]) THEN source[k][i] ELSE object[k][i]]]

\* JSON.parse of the output of git notes show, "{}" for a missing note
ParsedNote(shown) == IF "stdout" \in DOMAIN shown THEN shown.stdout ELSE <<>>

\* Faulty variant of getNoteRejects: handleError turns every failure of git
\* notes show into an empty note
getNoteRejects_Never(stored) == FALSE

\* getNote(ref) rejects: a git notes show failed with another exit code than 1
getNoteRejects(stored) ==
  \E r \in {stored.legacy, stored.tag} : "exitCode" \in DOMAIN r /\ r.exitCode # 1

\* getNote(ref): the merge of the note under the shared ref and of the note
\* under the ref of the tag
getNote(stored) == merge(ParsedNote(stored.legacy), ParsedNote(stored.tag))

\* (await getNote(tag)).channels || [null]
ChannelsOr(note) == IF "channels" \in DOMAIN note THEN note.channels ELSE <<NULL>>

\* Faulty variant of branchTags: the version of a tag is not validated
RECURSIVE branchTags_NotValidated(_, _, _)
branchTags_NotValidated(tags, regexp, notes) ==
  IF tags = <<>> THEN <<>>
  ELSE LET tagName == tags[Len(tags)]
           version == match(tagName, regexp)
           rest == branchTags_NotValidated(SubSeq(tags, 1, Len(tags) - 1), regexp, notes)
       IN IF version # <<>>
          THEN Append(rest, [gitTag |-> tagName, version |-> version,
                             channels |-> ChannelsOr(getNote(notes[tagName]))])
          ELSE rest

\* The inner pReduce: the tags of one branch, from the tags git listed
RECURSIVE branchTags(_, _, _)
branchTags(tags, regexp, notes) ==
  IF tags = <<>> THEN <<>>
  ELSE LET tagName == tags[Len(tags)]
           version == match(tagName, regexp)
           rest == branchTags(SubSeq(tags, 1, Len(tags) - 1), regexp, notes)
       IN IF version # <<>> /\ valid(clean(version))
          THEN Append(rest, [gitTag |-> tagName, version |-> version,
                             channels |-> ChannelsOr(getNote(notes[tagName]))])
          ELSE rest

\* /refs\/pull\/\d+\/merge/.test(branch.name) ? "HEAD" : branch.name
TagsRef(b) == IF b.name = PullRequestRef THEN "HEAD" ELSE b.name

InitGetTags ==
  /\ pc = "getTags"
  /\ NoInvocation
  /\ expansion = <<>>
  /\ validation = <<>>
  /\ \E tagFormat \in TagFormats, branches \in TaggedBranches,
        tags \in Lists(TagNames, MaxTags), notes \in NoteStores :
       tagging = [tagFormat |-> tagFormat, branches |-> branches,
                  gitTags |-> [master |-> tags, HEAD |-> Reverse(tags)],
                  notes |-> notes, read |-> <<>>, result |-> <<>>]

\* Faulty variant of TaggedBranch: the branch is rebuilt from its name
TaggedBranch_NameOnly(b, kept) == [name |-> b.name, tags |-> kept]

\* { ...branch, tags: branchTags }
TaggedBranch(b, kept) ==
  [k \in DOMAIN b \cup {"tags"} |-> IF k = "tags" THEN kept ELSE b[k]]

\* One step of the outer pReduce: await getTags(ref), which rejects when git
\* tag --merged fails, then the inner pReduce, which rejects when a getNote
\* of a tag it keeps does; read records what each getNote call returned
GetBranchTags ==
  /\ pc = "getTags"
  /\ Len(tagging.result) < Len(tagging.branches)
  /\ LET b == tagging.branches[Len(tagging.result) + 1]
         tags == tagging.gitTags[TagsRef(b)]
         kept == branchTags(tags, tagRegexp(tagging.tagFormat), tagging.notes)
     IN \/ /\ \A i \in DOMAIN kept : ~getNoteRejects(tagging.notes[kept[i].gitTag])
           /\ tagging' = [tagging EXCEPT
                !.read = @ \o [i \in DOMAIN kept |->
                                 [ref |-> kept[i].gitTag,
                                  note |-> getNote(tagging.notes[kept[i].gitTag])]],
                !.result = Append(@, TaggedBranch(b, kept))]
           /\ UNCHANGED pc
        \/ /\ \E i \in DOMAIN kept : getNoteRejects(tagging.notes[kept[i].gitTag])
           /\ pc' = "getTagsFailed"
           /\ UNCHANGED tagging
        \/ /\ pc' = "getTagsFailed"
           /\ UNCHANGED tagging
  /\ UNCHANGED <<invocation, expansion, validation>>

\* The outer pReduce resolves
GetTagsResolved ==
  /\ pc = "getTags"
  /\ Len(tagging.result) = Len(tagging.branches)
  /\ pc' = "tagsResolved"
  /\ UNCHANGED <<invocation, lib>>

NextGetTags == GetBranchTags \/ GetTagsResolved

SpecGetTags == InitGetTags /\ [][NextGetTags]_vars

(***************************************************************************)
(* The tag of a version (index.js:186) and its resolution (get-tags.js:14). *)
(***************************************************************************)
\* The formats with the variable ${version} once: those of TagFormats,
\* ${version}-beta, v${version}-beta and vv${version}
RoundTripFormats ==
  TagFormats \cup {<<VersionVariable, PrereleaseText>>,
                   <<Text("v"), VersionVariable, PrereleaseText>>,
                   <<Text("v"), Text("v"), VersionVariable>>}

\* The texts of valid semvers: 1.0.0, 1.0.0-beta, 1.1.0-beta.1, ...
SemverTexts ==
  LET versions == {V(1, 0, 0, <<>>), V(0, 1, 0, <<>>), V(2, 0, 0, <<>>),
                   V(1, 1, 0, <<"beta", 1>>), V(1, 0, 0, <<"alpha", 0>>)}
  IN {<<Ver(v)>> : v \in versions} \cup {<<Ver(v), PrereleaseText>> : v \in versions}

\* template(tagFormat)({version}): the format with the text of the version in
\* the place of the variable
renderTag(tagFormat, version) ==
  LET i == CHOOSE i \in DOMAIN tagFormat : tagFormat[i] = VersionVariable
  IN SubSeq(tagFormat, 1, i - 1) \o version \o SubSeq(tagFormat, i + 1, Len(tagFormat))

InitRoundTrip ==
  /\ pc = "makeTag"
  /\ NoInvocation
  /\ expansion = <<>>
  /\ validation = <<>>
  /\ \E tagFormat \in RoundTripFormats, version \in SemverTexts :
       tagging = [tagFormat |-> tagFormat, version |-> version, gitTag |-> <<>>,
                  matched |-> <<>>]

\* nextRelease.gitTag = makeTag(options.tagFormat, nextRelease.version)
MakeTag ==
  /\ pc = "makeTag"
  /\ tagging' = [tagging EXCEPT !.gitTag = renderTag(tagging.tagFormat, tagging.version)]
  /\ pc' = "matchTag"
  /\ UNCHANGED <<invocation, expansion, validation>>

\* const [, version] = tag.match(tagRegexp) || []
MatchTag ==
  /\ pc = "matchTag"
  /\ tagging' = [tagging EXCEPT !.matched = match(tagging.gitTag, tagRegexp(tagging.tagFormat))]
  /\ pc' = "tagMatched"
  /\ UNCHANGED <<invocation, expansion, validation>>

NextRoundTrip == MakeTag \/ MatchTag

SpecRoundTrip == InitRoundTrip /\ [][NextRoundTrip]_vars

(***************************************************************************)
(* Two invocations on the same remote branch, each in a clone of its own   *)
(* (index.js:67-218). The variables hold the invocation that is running;   *)
(* concurrent.other holds the one that is not, and the two change places   *)
(* wherever the running one awaits. Both start at the call of getBranches, *)
(* with the configuration read and verified.                               *)
(***************************************************************************)
ConcurrentCiBranches == {"master"}

\* The branches of the two invocations: the CI branch has no release or one,
\* on its channel, so that no release is to be added to a channel
ConcurrentBranches(ci) ==
  {bs \in ResolvedBranches(ci) :
     /\ bs[ci].range = Unbounded
     /\ Len(bs[ci].tags) <= 1
     /\ ReleasesToAdd(bs[ci]) = {}}

\* Faulty variant of fetch: the tags of the remote are not fetched
fetch_Nothing(r) == r

\* fetch(repositoryUrl, branch, ciBranch): git fetch --tags
fetch(r) == [r EXCEPT !.localTags = @ \cup r.remoteTags]

\* fetchNotes(repositoryUrl): git fetch +refs/notes/*:refs/notes/*
fetchNotes(r) == [r EXCEPT !.localNotes = r.remoteNotes @@ @]

\* The version of a tag named by makeTag: the group of the tag expression
TagVersion(tagName) == tagName[2]

\* The channels get-tags.js reads for a tag in the notes of the clone
NoteChannels(notes, tagName) ==
  ChannelsOr(merge(IF <<LegacyNoteRef, tagName>> \in DOMAIN notes
                   THEN notes[<<LegacyNoteRef, tagName>>] ELSE <<>>,
                   IF <<NoteRef(tagName), tagName>> \in DOMAIN notes
                   THEN notes[<<NoteRef(tagName), tagName>>] ELSE <<>>))

\* The versions of a set, lowest first
RECURSIVE Ascending(_)
Ascending(versions) ==
  IF versions = {} THEN <<>>
  ELSE LET lowest == CHOOSE v \in versions : \A w \in versions : ~SemverLt(w, v)
       IN <<lowest>> \o Ascending(versions \ {lowest})

\* The tags of the branch b in the clone r: the tags the branch had and the
\* tags made since on its head, each with the channels of its note
FetchedTags(b, r) ==
  LET had == [i \in DOMAIN b.tags |-> b.tags[i].gitTag]
      made == Ascending({TagVersion(t) :
                           t \in r.localTags \ {u.gitTag : u \in AllTags(git.branches)}})
      names == had \o [i \in DOMAIN made |-> makeTag(made[i])]
  IN [i \in DOMAIN names |->
        [gitTag |-> names[i], version |-> TagVersion(names[i]),
         channels |-> NoteChannels(r.localNotes, names[i])]]

\* The invocation that is running, as it is kept while the other one runs
Running ==
  [pc |-> pc, options |-> options, branch |-> branch, errors |-> errors,
   releases |-> releases, releaseToAdd |-> releaseToAdd, lastRelease |-> lastRelease,
   releaseType |-> releaseType, nextRelease |-> nextRelease, calls |-> calls,
   thrown |-> thrown, raised |-> raised, failErrors |-> failErrors, logged |-> logged,
   outcome |-> outcome, result |-> result, localTags |-> repo.localTags,
   localNotes |-> repo.localNotes, serialized |-> concurrent.serialized]

InitConcurrent ==
  /\ pc = "getBranches"
  /\ envCi \in {[isCi |-> TRUE, isPr |-> FALSE, branch |-> b, prBranch |-> UNDEFINED] :
                  b \in ConcurrentCiBranches}
  /\ cliOptions = [dryRun |-> FALSE, noCi |-> FALSE, publishOnPr |-> FALSE]
  /\ options = cliOptions
  /\ packageVersion = V(0, 0, 0, <<>>)
  /\ \E a \in BOOLEAN, bs \in ConcurrentBranches(CiBranch(envCi)) :
       /\ git = [authorized |-> a, localHead |-> "c2", remoteHead |-> "c2", branches |-> bs,
                 legacyNotes |-> FALSE]
       /\ repo = [localTags |-> {t.gitTag : t \in AllTags(bs)},
                  remoteTags |-> {t.gitTag : t \in AllTags(bs)},
                  localNotes |-> NotesOf(bs, FALSE),
                  remoteNotes |-> NotesOf(bs, FALSE)]
  /\ branch = <<>>
  /\ errors = <<>>
  /\ releases = <<>>
  /\ releaseToAdd = <<>>
  /\ lastRelease = <<>>
  /\ releaseType = UNDEFINED
  /\ nextRelease = <<>>
  /\ calls = <<Call("config", "getConfig", TRUE), Call("config", "verify", TRUE)>>
  /\ thrown = <<>>
  /\ raised = <<>>
  /\ failErrors = <<>>
  /\ logged = <<>>
  /\ outcome = "running"
  /\ result = <<>>
  /\ expansion = <<>>
  /\ validation = <<>>
  /\ tagging = <<>>
  /\ concurrent =
       [serialized |-> FALSE,
        other |-> [pc |-> pc, options |-> options, branch |-> branch, errors |-> errors,
                   releases |-> releases, releaseToAdd |-> releaseToAdd,
                   lastRelease |-> lastRelease, releaseType |-> releaseType,
                   nextRelease |-> nextRelease, calls |-> calls, thrown |-> thrown,
                   raised |-> raised, failErrors |-> failErrors, logged |-> logged,
                   outcome |-> outcome, result |-> result, localTags |-> repo.localTags,
                   localNotes |-> repo.localNotes, serialized |-> FALSE]]

\* context.branches = await getBranches(repositoryUrl, ciBranch, context), which
\* fetches the tags and the notes of the remote before it reads the tags of
\* the branches, then the lookup of the CI branch; serialized records that
\* the other invocation had ended by then
FetchBranches ==
  /\ pc = "getBranches"
  /\ \E ok \in BOOLEAN :
       /\ calls' = Append(calls, Call("config", "getBranches", ok))
       /\ IF ~ok
          THEN /\ \E e \in {<<getError("ERELEASEBRANCHES")>>, <<ExecaError("git ls-remote")>>} :
                    Throw(e)
               /\ UNCHANGED <<branch, repo>>
          ELSE /\ repo' = fetchNotes(fetch(repo))
               /\ IF CiBranch(envCi) \in DOMAIN git.branches
                  THEN /\ branch' = [git.branches[CiBranch(envCi)] EXCEPT
                                       !.tags = FetchedTags(git.branches[CiBranch(envCi)],
                                                            repo')]
                       /\ Goto("verifyAuth")
                  ELSE UNCHANGED branch /\ Return(<<>>)
  /\ concurrent' = [concurrent EXCEPT !.serialized = (concurrent.other.pc = "done")]
  /\ UNCHANGED <<envCi, git, cliOptions, packageVersion, lib, options, errors, releases,
                 releaseToAdd, lastRelease, releaseType, nextRelease>>

\* The running invocation awaits and the other one runs
Yield ==
  /\ concurrent.other.pc # "done"
  /\ concurrent' = [serialized |-> concurrent.other.serialized, other |-> Running]
  /\ pc' = concurrent.other.pc
  /\ options' = concurrent.other.options
  /\ branch' = concurrent.other.branch
  /\ errors' = concurrent.other.errors
  /\ releases' = concurrent.other.releases
  /\ releaseToAdd' = concurrent.other.releaseToAdd
  /\ lastRelease' = concurrent.other.lastRelease
  /\ releaseType' = concurrent.other.releaseType
  /\ nextRelease' = concurrent.other.nextRelease
  /\ calls' = concurrent.other.calls
  /\ thrown' = concurrent.other.thrown
  /\ raised' = concurrent.other.raised
  /\ failErrors' = concurrent.other.failErrors
  /\ logged' = concurrent.other.logged
  /\ outcome' = concurrent.other.outcome
  /\ result' = concurrent.other.result
  /\ repo' = [repo EXCEPT !.localTags = concurrent.other.localTags,
                          !.localNotes = concurrent.other.localNotes]
  /\ UNCHANGED <<envCi, git, cliOptions, packageVersion, lib>>

NextConcurrent ==
  \/ FetchBranches \/ VerifyAuth \/ AuthCatch \/ VerifyConditions
  \/ GetReleaseToAdd
  \/ GetLastRelease \/ GetCommits \/ AnalyzeCommits \/ GetNextVersion
  \/ VerifyRelease \/ GenerateNotes \/ Prepare
  \/ TagRelease \/ AddNote \/ Push \/ PushNotes \/ Publish \/ Success
  \/ callFail
  \/ Yield

SpecConcurrent == InitConcurrent /\ [][NextConcurrent]_vars

(***************************************************************************)
(* Properties of the orchestrator.                                         *)
(***************************************************************************)
HasCall(phase, op, ok) == \E i \in DOMAIN calls : calls[i] = Call(phase, op, ok)

Called(op) == \E i \in DOMAIN calls : calls[i].op = op

GitMutations == {"tag", "addNote", "push", "pushNotes"}

PluginSteps == {"verifyConditions", "analyzeCommits", "verifyRelease", "generateNotes",
                "prepare", "publish", "addChannel", "success"}

\* The tags and notes of the repository before the run
InitialRepo ==
  [localTags |-> {t.gitTag : t \in AllTags(git.branches)},
   remoteTags |-> {t.gitTag : t \in AllTags(git.branches)},
   localNotes |-> NotesOf(git.branches, git.legacyNotes),
   remoteNotes |-> NotesOf(git.branches, git.legacyNotes)]

\* The local HEAD is a strict ancestor of the head of the remote branch
Behind == git.remoteHead # "" /\ Ancestor(git.localHead, git.remoteHead)

Done == pc = "done"

\* C1: no git mutation (tag, addNote, push, pushNotes) is called before
\* verifyConditions has completed successfully, and as long as it has not,
\* the tags and notes of the repository are those found before the run.
C1_NoMutationBeforeVerifyConditions ==
  /\ \A i \in DOMAIN calls :
       calls[i].op \in GitMutations =>
         \E j \in 1..(i - 1) : calls[j] = Call("verify", "verifyConditions", TRUE)
  /\ ~HasCall("verify", "verifyConditions", TRUE) => repo = InitialRepo

C1_Witness ==
  /\ HasCall("verify", "verifyConditions", TRUE)
  /\ HasCall("new", "tag", TRUE)
  /\ HasCall("add", "addNote", TRUE)
  /\ repo # InitialRepo

\* The tag of nextRelease was created, then pushed, and only then publish was
\* called; the remote repository has the tag.
TagPushedBeforePublish ==
  /\ \E k \in DOMAIN calls :
       /\ calls[k].op = "publish"
       /\ \A l \in DOMAIN calls : calls[l].op = "publish" => l = k
       /\ \E j \in 1..(k - 1) :
            /\ calls[j] = Call("new", "push", TRUE)
            /\ \E i \in 1..(j - 1) : calls[i] = Call("new", "tag", TRUE)
  /\ nextRelease.gitTag \in repo.localTags
  /\ nextRelease.gitTag \in repo.remoteTags

C3_DryRunNoMutation ==
  options.dryRun =>
    /\ \A i \in DOMAIN calls : calls[i].op \notin GitMutations
    /\ repo = InitialRepo

C3_Witness ==
  /\ options.dryRun
  /\ Done
  /\ HasCall("add", "success", TRUE)
  /\ HasCall("new", "success", TRUE)

\* The position of a stage of the new-release path in the order of C4
StageRank(op) ==
  CASE op = "analyzeCommits" -> 1
    [] op = "getNextVersion" -> 2
    [] op = "validateRange" -> 3
    [] op = "verifyRelease" -> 4
    [] op = "generateNotes" -> 5
    [] op = "prepare" -> 6
    [] op = "tag" -> 7
    [] op = "addNote" -> 8
    [] op = "push" -> 9
    [] op = "pushNotes" -> 10
    [] op = "publish" -> 11
    [] op = "success" -> 12
    [] OTHER -> 0

\* The stages of the new-release path that were started, in the order of start
NewStages == SelectSeq(calls, LAMBDA c : c.phase = "new" /\ StageRank(c.op) > 0)

\* C4: the stages of the new-release path start in the stated order, each at
\* most once, and each only after the one started before it completed.
C4_NewReleaseStagesInOrder ==
  LET stages == NewStages
  IN \A i \in 1..(Len(stages) - 1) :
       /\ StageRank(stages[i].op) < StageRank(stages[i + 1].op)
       /\ stages[i].ok

C4_Witness ==
  /\ Done
  /\ outcome = "object"
  /\ ~options.dryRun
  /\ Len(NewStages) = 12
  /\ \A i \in 1..12 : StageRank(NewStages[i].op) = i

\* C5 as stated: every error run throws was handed, as the whole aggregated
\* error set, to the fail step before it reached the caller.
C5_FailCalledForEveryError ==
  (Done /\ outcome = "threw" /\ HasCall("config", "getConfig", TRUE)) =>
    failErrors = <<raised>>

\* C5, amended: an error thrown by run that contains a SemanticReleaseError is
\* handed to the fail step exactly once, as the list of its SemanticReleaseErrors,
\* before it reaches the caller; an error without any SemanticReleaseError (a
\* failing git command, another exception of a plugin) and an error of
\* getConfig reach the caller without the fail step.
C5_FailCalledForSemanticReleaseErrors ==
  (Done /\ outcome = "threw") =>
    IF HasCall("config", "getConfig", TRUE)
       /\ \E i \in DOMAIN raised : raised[i].semanticRelease
    THEN /\ failErrors = <<SelectSeq(raised, LAMBDA e : e.semanticRelease)>>
         /\ Called("fail")
    ELSE failErrors = <<>> /\ ~Called("fail")

C5_Witness ==
  /\ Done
  /\ outcome = "threw"
  /\ Len(failErrors) = 1
  /\ Len(raised) = 2
  /\ Len(failErrors[1]) = 1

\* C6: the error the caller receives is the error the run threw; when the
\* fail step itself fails its error is logged and the caller still receives
\* the error of the run.
C6_CallerReceivesOriginalError ==
  (Done /\ outcome = "threw") =>
    /\ raised = thrown
    /\ raised # <<>>
    /\ HasCall("fail", "fail", FALSE) =>
         \E i \in DOMAIN logged : logged[i] \in PluginErrors /\ i < Len(logged)

C6_Witness == Done /\ outcome = "threw" /\ HasCall("fail", "fail", FALSE)

\* After a failed plugin step or git operation only the check of the probe and
\* the fail step follow, and no operation is performed twice in a phase.
C7_AbortWithoutRetry ==
  /\ \A i, j \in DOMAIN calls :
       (i < j /\ ~calls[i].ok) =>
         \/ calls[j].op = "fail"
         \/ calls[i].op = "verifyAuth" /\ calls[j].op = "isBranchUpToDate" /\ j = i + 1
  /\ \A i, j \in DOMAIN calls : calls[i] = calls[j] => i = j

\* A failure that produced no error is the failure of the probe on a local
\* branch that is behind the remote one.
C7_OnlyBenignFailuresTolerated ==
  (Done /\ outcome # "threw") =>
    \A i \in DOMAIN calls : ~calls[i].ok => calls[i].op = "verifyAuth" /\ Behind

\* C7 as stated: a failed stage aborts the run without retry, and the only
\* failure that produces no error is that of the probe on a stale local branch
\* (the absence of relevant commits is no failed operation).
C7_FailedStageAbortsRun == C7_AbortWithoutRetry /\ C7_OnlyBenignFailuresTolerated

\* The steps of the new-release path after commit analysis, and the fail step
AfterAnalysis == {c \in {calls[i] : i \in DOMAIN calls} :
                    (c.phase = "new" /\ StageRank(c.op) > 1) \/ c.op = "fail"}

\* The outcome of a run in which commit analysis found no release type
NoReleaseOutcome ==
  /\ outcome # "threw"
  /\ thrown = <<>>
  /\ AfterAnalysis = {}
  /\ Len(releases) = 0 => outcome = "false"
  /\ Len(releases) > 0 => outcome = "object" /\ result = [releases |-> releases]

C9_ResultShape ==
  (Done /\ outcome # "threw") =>
    \/ outcome = "false"
    \/ DOMAIN result = {"lastRelease", "commits", "nextRelease", "releases"}

\* C10 as stated: after a failed probe the run returns false, without error,
\* fail step or plugin step, if the local branch is behind the remote one, and
\* throws EGITNOPERMISSION in every other case.
C10_ProbeFailure ==
  (Done /\ HasCall("auth", "verifyAuth", FALSE)) =>
    /\ (Behind /\ HasCall("auth", "isBranchUpToDate", TRUE)) =>
         /\ outcome = "false"
         /\ \A i \in DOMAIN calls : calls[i].op \notin PluginSteps \cup {"fail"}
    /\ ~Behind =>
         /\ outcome = "threw"
         /\ raised = <<getError("EGITNOPERMISSION")>>

\* The run ended in the pull-request exit: it returned false, the only step
\* performed is the loading of the configuration, and the repository has the
\* tags and notes it had.
PullRequestExit ==
  /\ outcome = "false"
  /\ calls = <<Call("config", "getConfig", TRUE)>>
  /\ failErrors = <<>>
  /\ repo = InitialRepo

\* C11 as stated: a run triggered by a pull request without publishOnPr
\* returns false without any git mutation, plugin step or fail step.
C11_PullRequestNoRelease ==
  (Done /\ HasCall("config", "getConfig", TRUE)
        /\ envCi.isPr /\ ~options.publishOnPr) => PullRequestExit

\* C11, amended: a run triggered by a pull request in a CI environment, with
\* neither publishOnPr nor noCi set, returns false without any git mutation,
\* plugin step or fail step.
C11_PullRequestNoReleaseUnlessNoCi ==
  (Done /\ HasCall("config", "getConfig", TRUE)
        /\ envCi.isCi /\ envCi.isPr /\ ~options.noCi /\ ~options.publishOnPr) =>
    PullRequestExit

C11_Witness ==
  /\ Done
  /\ envCi.isCi /\ envCi.isPr /\ ~options.noCi /\ ~options.publishOnPr
  /\ ~options.dryRun
  /\ PullRequestExit

\* The forced dry-run applies: no CI environment, and neither dryRun nor noCi
\* configured
ForcedDryRun == ~envCi.isCi /\ ~cliOptions.dryRun /\ ~cliOptions.noCi

\* C12: the options are those configured until run starts, where nothing but
\* the loading of the configuration has happened; from then on dryRun is true
\* if the forced dry-run applies and has its configured value otherwise, and
\* a run with the forced dry-run performs no git mutation.
C12_ForcedDryRun ==
  /\ options.noCi = cliOptions.noCi
  /\ options.publishOnPr = cliOptions.publishOnPr
  /\ pc \in {"getConfig", "run"} =>
       /\ options = cliOptions
       /\ \A i \in DOMAIN calls : calls[i].op = "getConfig"
  /\ (pc \notin {"getConfig", "run"} /\ HasCall("config", "getConfig", TRUE)) =>
       /\ options.dryRun = (ForcedDryRun \/ cliOptions.dryRun)
       /\ ForcedDryRun =>
            /\ \A i \in DOMAIN calls : calls[i].op \notin GitMutations
            /\ repo = InitialRepo

C12_Witness ==
  /\ Done
  /\ ForcedDryRun
  /\ options.dryRun
  /\ HasCall("add", "success", TRUE)
  /\ HasCall("new", "publish", TRUE)

\* An error with the given code is among the errors the run threw
ThrownCode(code) == \E i \in DOMAIN thrown : thrown[i].code = code

\* The validation of the computed version was reached and rejected it: the run
\* threw EINVALIDNEXTVERSION alone and no later stage started
RejectedNextVersion ==
  /\ thrown = <<getError("EINVALIDNEXTVERSION")>>
  /\ HasCall("new", "validateRange", FALSE)
  /\ \A i \in DOMAIN calls : calls[i].phase = "new" => StageRank(calls[i].op) <= 3

\* C13 as stated: the computed version is validated on maintenance branches
\* only: there the run fails with EINVALIDNEXTVERSION exactly when the version
\* is outside the range of the branch, and on a release or prerelease branch
\* the run never fails with that error.
C13_RangeValidationMaintenanceOnly ==
  /\ "version" \in DOMAIN nextRelease =>
       IF branch.type = "maintenance" /\ ~SemverSatisfies(nextRelease.version, branch.range)
       THEN RejectedNextVersion
       ELSE ~ThrownCode("EINVALIDNEXTVERSION")
  /\ "version" \notin DOMAIN nextRelease => ~ThrownCode("EINVALIDNEXTVERSION")

\* C13, amended: the computed version is validated on every branch that is not
\* a prerelease branch: on a maintenance or release branch the run fails with
\* EINVALIDNEXTVERSION exactly when the version is outside the range of the
\* branch, and on a prerelease branch the run never fails with that error.
C13_RangeValidationUnlessPrerelease ==
  /\ "version" \in DOMAIN nextRelease =>
       IF /\ branch.type \in {"maintenance", "release"}
          /\ ~SemverSatisfies(nextRelease.version, branch.range)
       THEN RejectedNextVersion
       ELSE ~ThrownCode("EINVALIDNEXTVERSION")
  /\ "version" \notin DOMAIN nextRelease => ~ThrownCode("EINVALIDNEXTVERSION")

C13_Witness ==
  /\ Done
  /\ branch # <<>>
  /\ branch.type = "release"
  /\ RejectedNextVersion

\* The merge-range validation of the add-channel path rejected the version
MergeRejected ==
  /\ releaseToAdd # <<>>
  /\ HasCall("add", "getTagHead", TRUE)
  /\ branch.mergeRange # <<>>
  /\ ~SemverSatisfies(releaseToAdd.nextRelease.version, branch.mergeRange[1])

\* C14: once the merge-range validation of the add-channel path rejected the
\* promoted version, no note is written, nothing is pushed, the tag list of
\* the branch is not extended, no step of the add-channel path, of the
\* derivation of lastRelease or of the new-release path is performed, and the
\* run ends by throwing the errors, EINVALIDMAINTENANCEMERGE among them.
C14_MergeRangeRejection ==
  MergeRejected =>
    /\ repo = InitialRepo
    /\ branch.tags = git.branches[branch.name].tags
    /\ releases = <<>>
    /\ lastRelease = <<>>
    /\ \A i \in DOMAIN calls :
         /\ calls[i].phase \notin {"last", "new"}
         /\ calls[i].phase = "add" => calls[i].op = "getTagHead"
    /\ Done =>
         /\ outcome = "threw"
         /\ raised = thrown
         /\ ThrownCode("EINVALIDMAINTENANCEMERGE")

C14_Witness ==
  /\ Done
  /\ MergeRejected
  /\ ~options.dryRun
  /\ raised = <<getError("EINVALIDMAINTENANCEMERGE")>>
  /\ HasCall("fail", "fail", TRUE)

\* The position of a stage of the add-channel path in the order of C15
AddStageRank(op) ==
  CASE op = "generateNotes" -> 1
    [] op = "addNote" -> 2
    [] op = "push" -> 3
    [] op = "pushNotes" -> 4
    [] op = "addChannel" -> 5
    [] op = "success" -> 6
    [] OTHER -> 0

\* The stages of the add-channel path that were started, in the order of start
AddStages == SelectSeq(calls, LAMBDA c : c.phase = "add" /\ AddStageRank(c.op) > 0)

\* The tag list of the branch was extended by the promoted release
TagAppended ==
  /\ Len(branch.tags) = Len(git.branches[branch.name].tags) + 1
  /\ branch.tags[Len(branch.tags)].gitTag = releaseToAdd.nextRelease.gitTag

\* C15: in a run that is not in dry-run mode the stages of the add-channel path
\* start in the stated order, none skipped and each after the one before it
\* completed; the tag list of the branch is extended after the push of the
\* note ref and when the addChannel step starts; and lastRelease is derived and
\* the new-release path starts only after the success step of the add-channel
\* path completed.
C15_AddChannelOrder ==
  (branch # <<>> /\ ~options.dryRun) =>
    LET stages == AddStages
    IN /\ \A i \in DOMAIN stages : AddStageRank(stages[i].op) = i
       /\ \A i \in 1..(Len(stages) - 1) : stages[i].ok
       /\ IF \E i \in DOMAIN stages : stages[i].op = "addChannel"
          THEN TagAppended /\ HasCall("add", "pushNotes", TRUE)
          ELSE branch.tags = git.branches[branch.name].tags
       /\ releaseToAdd # <<>> /\ ~MergeRejected =>
            \A j \in DOMAIN calls :
               calls[j].phase \in {"last", "new"} =>
                 \E i \in 1..(j - 1) : calls[i] = Call("add", "success", TRUE)
       /\ releaseToAdd # <<>> /\ lastRelease # <<>> => HasCall("add", "success", TRUE)

C15_Witness ==
  /\ Done
  /\ ~options.dryRun
  /\ outcome = "object"
  /\ Len(AddStages) = 6
  /\ TagAppended
  /\ lastRelease # <<>>
  /\ HasCall("new", "success", TRUE)

(***************************************************************************)
(* Properties of the version calculator.                                   *)
(***************************************************************************)
\* getNextVersion has returned: nextRelease.version is assigned
Computed == "version" \in DOMAIN nextRelease

\* The bump a requested type stands for at the given major version
Dampened(major, type) ==
  IF major = 0
  THEN CASE type = "major" -> "minor" [] type = "minor" -> "patch" [] OTHER -> "patch"
  ELSE type

\* The increment of a release triplet by a bump
Bump(v, type) ==
  CASE type = "patch" -> V(v.major, v.minor, v.patch + 1, <<>>)
    [] type = "minor" -> V(v.major, v.minor + 1, 0, <<>>)
    [] type = "major" -> V(v.major + 1, 0, 0, <<>>)

\* The configured prerelease base, 1 by default
Base == IF "prereleaseIdentifierBase" \in DOMAIN options
        THEN options.prereleaseIdentifierBase ELSE 1

\* lastRelease is a prerelease whose channels contain the targeted channel
SameChannelPrerelease ==
  /\ lastRelease # <<>>
  /\ lastRelease.version.pre # <<>>
  /\ \E i \in DOMAIN lastRelease.channels :
        \/ lastRelease.channels[i] = nextRelease.channel
        \/ lastRelease.channels[i] = NULL /\ nextRelease.channel = NULL

\* C16: on a branch that is not a prerelease branch, with a prior release v,
\* the next version is v incremented by the requested bump when major(v) >= 1
\* and by the dampened bump (major as minor, minor as patch) when major(v) = 0:
\* 1.0.0 gives 1.0.1 / 1.1.0 / 2.0.0 and 0.0.1 gives 0.0.2 / 0.0.2 / 0.1.0.
C16_NonPrereleaseIncrement ==
  (Computed /\ branch.type # "prerelease" /\ lastRelease # <<>>) =>
    LET v == lastRelease.version
        type == nextRelease.type
    IN /\ nextRelease.version = Bump(v, Dampened(v.major, type))
       /\ v = V(1, 0, 0, <<>>) =>
            nextRelease.version =
              CASE type = "patch" -> V(1, 0, 1, <<>>)
                [] type = "minor" -> V(1, 1, 0, <<>>)
                [] type = "major" -> V(2, 0, 0, <<>>)
       /\ v = V(0, 0, 1, <<>>) =>
            nextRelease.version =
              CASE type = "patch" -> V(0, 0, 2, <<>>)
                [] type = "minor" -> V(0, 0, 2, <<>>)
                [] type = "major" -> V(0, 1, 0, <<>>)

C16_Witness ==
  /\ Computed
  /\ branch.type = "release"
  /\ lastRelease # <<>>
  /\ lastRelease.version = V(0, 0, 1, <<>>)
  /\ nextRelease.type = "major"
  /\ nextRelease.version = V(0, 1, 0, <<>>)

\* The effective first release: the package version when
\* respectPackageJsonVersion is set, else the configured one, 1.0.0 by default
FirstRelease ==
  IF "respectPackageJsonVersion" \in DOMAIN options /\ options.respectPackageJsonVersion
  THEN packageVersion
  ELSE IF "firstRelease" \in DOMAIN options THEN options.firstRelease
       ELSE V(1, 0, 0, <<>>)

\* C17: without a prior release the next version is the effective first
\* release whatever the requested bump, and on a prerelease branch that version
\* with the prerelease <identifier>.<base>.
C17_FirstRelease ==
  (Computed /\ lastRelease = <<>>) =>
    nextRelease.version =
      IF branch.type = "prerelease"
      THEN V(FirstRelease.major, FirstRelease.minor, FirstRelease.patch,
             <<branch.prerelease, Base>>)
      ELSE FirstRelease

C17_Witness ==
  /\ Computed
  /\ lastRelease = <<>>
  /\ branch.type = "prerelease"
  /\ "respectPackageJsonVersion" \notin DOMAIN options
  /\ "firstRelease" \notin DOMAIN options
  /\ nextRelease.version = V(1, 0, 0, <<"beta", 0>>)

\* The semver-greatest of a non-empty set of versions
Greatest(versions) == CHOOSE v \in versions : \A w \in versions : ~SemverLt(v, w)

\* The continuation candidate: lastRelease with its counter incremented
Continuation ==
  IF SameChannelPrerelease
  THEN {V(lastRelease.version.major, lastRelease.version.minor, lastRelease.version.patch,
          <<lastRelease.version.pre[1], lastRelease.version.pre[2] + 1>>)}
  ELSE {}

\* The fresh candidate built on a set of release triplets: the highest one,
\* bumped by the requested type, with the prerelease <identifier>.<base>
Fresh(triplets) ==
  {LET v == Bump(Greatest(triplets), Dampened(Greatest(triplets).major, nextRelease.type))
   IN V(v.major, v.minor, v.patch, <<branch.prerelease, Base>>) : x \in {1} \cap
        {IF triplets = {} THEN 0 ELSE 1}}

\* The triplets of the tags of the branch that are regular releases
ReleasedTriplets ==
  {branch.tags[i].version : i \in {j \in DOMAIN branch.tags : branch.tags[j].version.pre = <<>>}}

\* The triplets of all the tags of the branch, their prerelease stripped
StrippedTriplets == {Triplet(branch.tags[i].version) : i \in DOMAIN branch.tags}

\* C18 as stated: on a prerelease branch with a prior release the next version
\* is the greater of the continuation candidate and the fresh candidate, the
\* latter built on the highest released triplet of the tags of the branch,
\* prerelease suffixes ignored (read as the regular releases only, or as every
\* tag stripped of its prerelease).
C18_GreaterOfTwoCandidates ==
  (Computed /\ branch.type = "prerelease" /\ lastRelease # <<>>) =>
    \/ /\ Continuation \cup Fresh(ReleasedTriplets) # {}
       /\ nextRelease.version = Greatest(Continuation \cup Fresh(ReleasedTriplets))
    \/ nextRelease.version = Greatest(Continuation \cup Fresh(StrippedTriplets))

\* C18, amended: on a prerelease branch whose lastRelease is a prerelease on
\* the targeted channel the next version is the greater of the continuation
\* candidate and of the fresh candidate, which is the semver increment by the
\* requested (dampened) type of the highest version among the tags of the
\* branch, prereleases included, with the prerelease <identifier>.<base>; the
\* increment of a prerelease version only drops its prerelease when the bump is
\* already contained in its triplet.
C18_GreaterOfContinuationAndLatest ==
  (Computed /\ branch.type = "prerelease" /\ SameChannelPrerelease) =>
    LET latest == Greatest({branch.tags[i].version : i \in DOMAIN branch.tags})
        bumped == SemverInc(latest, Dampened(latest.major, nextRelease.type))
        fresh == V(bumped.major, bumped.minor, bumped.patch, <<branch.prerelease, Base>>)
    IN nextRelease.version = Greatest(Continuation \cup {fresh})

C18_Witness ==
  /\ Computed
  /\ branch.type = "prerelease"
  /\ SameChannelPrerelease
  /\ lastRelease.version = V(1, 0, 1, <<"beta", 1>>)
  /\ Len(branch.tags) = 3
  /\ nextRelease.type = "patch"
  /\ nextRelease.version = V(2, 0, 0, <<"beta", 1>>)

\* lastRelease is the highest version among the tags of the branch
LastIsHighest ==
  \A i \in DOMAIN branch.tags : ~SemverLt(lastRelease.version, branch.tags[i].version)

\* C19 as stated: on a prerelease branch whose lastRelease X.Y.Z-id.N is on the
\* targeted channel and is the highest version among the tags of the branch,
\* the next version is X.Y.Z-id.(N+1) for every bump type.
C19_ContinuationKeepsTriplet ==
  (Computed /\ branch.type = "prerelease" /\ SameChannelPrerelease /\ LastIsHighest) =>
    nextRelease.version \in Continuation

\* The requested bump is contained in the triplet of the prerelease v: a patch
\* always, a minor when the patch of v is 0, a major when minor and patch are 0
BumpContained(v, type) ==
  CASE Dampened(v.major, type) = "patch" -> TRUE
    [] Dampened(v.major, type) = "minor" -> v.patch = 0
    [] Dampened(v.major, type) = "major" -> v.minor = 0 /\ v.patch = 0

\* C19, amended: on a prerelease branch whose lastRelease X.Y.Z-id.N, with id
\* the identifier of the branch, is on the targeted channel and is the highest
\* version among the tags of the branch, the next version is X.Y.Z-id.(N+1)
\* when the requested (dampened) bump is contained in X.Y.Z, and otherwise
\* X.Y.Z bumped by it, with the prerelease <id>.<base>.
C19_ContinuationKeepsTripletIfContained ==
  (Computed /\ branch.type = "prerelease" /\ SameChannelPrerelease /\ LastIsHighest
            /\ lastRelease.version.pre[1] = branch.prerelease) =>
    LET v == lastRelease.version
        bumped == Bump(Triplet(v), Dampened(v.major, nextRelease.type))
    IN IF BumpContained(v, nextRelease.type)
       THEN nextRelease.version \in Continuation
       ELSE nextRelease.version =
              V(bumped.major, bumped.minor, bumped.patch, <<branch.prerelease, Base>>)

C19_Witness ==
  /\ Computed
  /\ branch.type = "prerelease"
  /\ SameChannelPrerelease
  /\ LastIsHighest
  /\ lastRelease.version = V(1, 0, 1, <<"beta", 1>>)
  /\ nextRelease.type = "patch"
  /\ nextRelease.channel = "beta"
  /\ nextRelease.version = V(1, 0, 1, <<"beta", 2>>)

\* C20: on a prerelease branch whose lastRelease is not a prerelease on the
\* targeted channel the next version is the triplet of lastRelease bumped by
\* the requested (dampened) type, with the prerelease <identifier>.<base>:
\* 1.0.1-beta.1 of channel beta with a patch on alpha gives 1.0.2-alpha.<base>,
\* 1.1.0 of the default channel with a minor on beta gives 1.2.0-beta.<base>.
C20_SwitchedChannel ==
  (Computed /\ branch.type = "prerelease" /\ lastRelease # <<>> /\ ~SameChannelPrerelease) =>
    LET v == lastRelease.version
        bumped == Bump(Triplet(v), Dampened(v.major, nextRelease.type))
    IN /\ nextRelease.version =
            V(bumped.major, bumped.minor, bumped.patch, <<branch.prerelease, Base>>)
       /\ (v = V(1, 0, 1, <<"beta", 1>>) /\ nextRelease.type = "patch"
             /\ branch.prerelease = "alpha") =>
            nextRelease.version = V(1, 0, 2, <<"alpha", Base>>)
       /\ (v = V(1, 1, 0, <<>>) /\ nextRelease.type = "minor"
             /\ branch.prerelease = "beta") =>
            nextRelease.version = V(1, 2, 0, <<"beta", Base>>)

C20_Witness ==
  /\ Computed
  /\ branch.type = "prerelease"
  /\ branch.prerelease = "alpha"
  /\ lastRelease # <<>>
  /\ lastRelease.version = V(1, 0, 1, <<"beta", 1>>)
  /\ nextRelease.channel = "alpha"
  /\ nextRelease.type = "patch"
  /\ nextRelease.version = V(1, 0, 2, <<"alpha", 1>>)

\* The next version of the context for another requested type
NextVersionFor(type) ==
  getNextVersion(branch, type, nextRelease.channel, lastRelease, packageVersion, options)

\* No tag of the branch, lastRelease included, has a major version above 0
MajorZero ==
  /\ lastRelease # <<>>
  /\ lastRelease.version.major = 0
  /\ \A i \in DOMAIN branch.tags : branch.tags[i].version.major = 0

\* C21 as stated: for every last release with major version 0 the next version
\* for a major is the next version for a minor, and the next version for a
\* minor is the next version for a patch.
C21_MajorZeroDampening ==
  (Computed /\ lastRelease # <<>> /\ lastRelease.version.major = 0) =>
    /\ nextRelease.type = "major" => nextRelease.version = NextVersionFor("minor")
    /\ nextRelease.type = "minor" => nextRelease.version = NextVersionFor("patch")

\* C21, amended: while no tag of the branch has a major version above 0, the
\* next version for a minor is the next version for a patch, and the next
\* version for a major is built with the plain minor increment of semver (of
\* lastRelease, of its triplet, or of the highest tag for the fresh candidate),
\* not with the dampened minor.
C21_MajorZeroMajorIsPlainMinor ==
  (Computed /\ MajorZero) =>
    /\ nextRelease.type = "minor" => nextRelease.version = NextVersionFor("patch")
    /\ nextRelease.type = "major" =>
         LET v == lastRelease.version
             latest == Greatest({branch.tags[i].version : i \in DOMAIN branch.tags})
             bumped == SemverInc(latest, "minor")
         IN IF branch.type # "prerelease" THEN nextRelease.version = Bump(v, "minor")
            ELSE IF ~SameChannelPrerelease
                 THEN Triplet(nextRelease.version) = Bump(Triplet(v), "minor")
                 ELSE nextRelease.version =
                        Greatest(Continuation \cup
                                 {V(bumped.major, bumped.minor, bumped.patch,
                                    <<branch.prerelease, Base>>)})

C21_Witness ==
  /\ Computed
  /\ MajorZero
  /\ branch.type = "release"
  /\ lastRelease.version = V(0, 0, 1, <<>>)
  /\ nextRelease.type = "major"
  /\ nextRelease.version = V(0, 1, 0, <<>>)
  /\ NextVersionFor("minor") = V(0, 0, 2, <<>>)

\* C22 as stated: every version computed for a prerelease branch carries the
\* prerelease identifier of the branch, followed by a counter.
C22_OwnPrereleaseIdentifier ==
  (Computed /\ branch.type = "prerelease") =>
    /\ Len(nextRelease.version.pre) = 2
    /\ nextRelease.version.pre[1] = branch.prerelease
    /\ nextRelease.version.pre[2] \in Nat

(***************************************************************************)
(* Properties of the notes.                                                *)
(***************************************************************************)
\* The key of the note of a tag under the notes ref of that tag
NoteKey(gitTag) == <<NoteRef(gitTag), gitTag>>

\* The channel a release of the branch is published on
BranchChannel == IF branch.channel \in {UNDEFINED, JSFALSE} THEN NULL ELSE branch.channel

\* The run is on master without a prior tag and the analysis gave "minor"
FirstMinorOnMaster ==
  /\ branch.name = "master"
  /\ branch.type = "release"
  /\ branch.tags = <<>>
  /\ releaseType = "minor"

\* C23: once the note of a new release is added, the note of the new tag is
\* exactly {channels: [c]} with c the channel of the branch, or null when the
\* branch has none, and pushNotes publishes that note; on master without a
\* prior tag and a "minor" analysis the version is 1.0.0, the tag v1.0.0
\* exists and its note is {channels: [null]}.
C23_NewReleaseNote ==
  /\ HasCall("new", "addNote", TRUE) =>
       /\ NoteKey(nextRelease.gitTag) \in DOMAIN repo.localNotes
       /\ repo.localNotes[NoteKey(nextRelease.gitTag)] = [channels |-> <<BranchChannel>>]
       /\ FirstMinorOnMaster =>
            /\ nextRelease.version = V(1, 0, 0, <<>>)
            /\ nextRelease.gitTag = makeTag(V(1, 0, 0, <<>>))
            /\ makeTag(V(1, 0, 0, <<>>)) \in repo.localTags
            /\ repo.localNotes[NoteKey(makeTag(V(1, 0, 0, <<>>)))] = [channels |-> <<NULL>>]
  /\ HasCall("new", "pushNotes", TRUE) =>
       /\ NoteKey(nextRelease.gitTag) \in DOMAIN repo.remoteNotes
       /\ repo.remoteNotes[NoteKey(nextRelease.gitTag)] = [channels |-> <<BranchChannel>>]

C23_Witness ==
  /\ HasCall("new", "pushNotes", TRUE)
  /\ ~options.dryRun
  /\ FirstMinorOnMaster
  /\ nextRelease.gitTag = makeTag(V(1, 0, 0, <<>>))
  /\ repo.remoteNotes[NoteKey(nextRelease.gitTag)] = [channels |-> <<NULL>>]

\* The channels a tag was recorded on before the run
PreviousChannels(gitTag) ==
  InitialRepo.localNotes[<<IF git.legacyNotes THEN LegacyNoteRef ELSE NoteRef(gitTag),
                           gitTag>>].channels

\* The note of the promoted tag is written and the new-release path has not
\* written a note yet
ChannelAdded == HasCall("add", "addNote", TRUE) /\ ~HasCall("new", "addNote", TRUE)

\* C24: once the note of a promoted tag is added, the note under the notes
\* ref of that tag lists the channels the tag was recorded on before, in
\* their order, followed by the added channel, and no note under another
\* ref, the shared one included, was added, changed or removed.
C24_AddChannelKeepsChannels ==
  ChannelAdded =>
    LET gitTag == releaseToAdd.nextRelease.gitTag
    IN /\ NoteKey(gitTag) \in DOMAIN repo.localNotes
       /\ repo.localNotes[NoteKey(gitTag)] =
            [channels |-> PreviousChannels(gitTag) \o <<BranchChannel>>]
       /\ DOMAIN repo.localNotes = DOMAIN InitialRepo.localNotes \cup {NoteKey(gitTag)}
       /\ \A k \in DOMAIN repo.localNotes \ {NoteKey(gitTag)} :
             repo.localNotes[k] = InitialRepo.localNotes[k]

C24_Witness ==
  /\ ChannelAdded
  /\ git.legacyNotes
  /\ Len(PreviousChannels(releaseToAdd.nextRelease.gitTag)) = 2
  /\ repo.localNotes[NoteKey(releaseToAdd.nextRelease.gitTag)].channels =
       <<"next-major", "next", NULL>>
  /\ <<LegacyNoteRef, releaseToAdd.nextRelease.gitTag>> \in DOMAIN repo.localNotes

(***************************************************************************)
(* Properties of the branch expansion.                                     *)
(***************************************************************************)
Expanded == pc = "expanded"

\* The branch definitions whose glob matches the name, in declaration order
MatchingPatterns(name) ==
  {i \in DOMAIN expansion.branches : name \in Glob(expansion.branches[i].name)}

\* The first branch definition whose glob matches the name
FirstPattern(name) ==
  CHOOSE i \in MatchingPatterns(name) : \A j \in MatchingPatterns(name) : i <= j

\* The names of the pool some branch definition matches
Claimed ==
  {i \in DOMAIN expansion.pool : MatchingPatterns(expansion.pool[i]) # {}}

\* C25: in the result of expand no two records have the same name, every
\* name is a name of the pool, every name of the pool a definition matches
\* has one record, rendered from the first definition that matches it, the
\* records are in the order of their definitions, and a definition that
\* claims no name adds no record; expand only fails when git ls-remote does.
C25_FirstPatternClaims ==
  /\ pc = "expandFailed" => expansion.pool = <<>>
  /\ Expanded =>
       LET out == expansion.result
       IN /\ \A k, l \in DOMAIN out : out[k].name = out[l].name => k = l
          /\ \A k \in DOMAIN out : includes(expansion.pool, out[k].name)
          /\ \A k \in DOMAIN out :
                /\ MatchingPatterns(out[k].name) # {}
                /\ out[k] = ExpandedBranch(expansion.branches[FirstPattern(out[k].name)],
                                           out[k].name)
          /\ \A k, l \in DOMAIN out :
                k < l => FirstPattern(out[k].name) <= FirstPattern(out[l].name)
          /\ \A i \in Claimed : \E k \in DOMAIN out : out[k].name = expansion.pool[i]
          /\ Len(out) = Cardinality(Claimed)

C25_Witness ==
  /\ Expanded
  /\ Len(expansion.branches) = 3
  /\ Len(expansion.result) = 3
  /\ \E i \in DOMAIN expansion.pool : Cardinality(MatchingPatterns(expansion.pool[i])) >= 2
  /\ \E i \in DOMAIN expansion.branches :
       \A k \in DOMAIN expansion.result :
          FirstPattern(expansion.result[k].name) # i

\* The CI branch is not a remote branch in a run with publishOnPr
Synthesized == expansion.publishOnPr /\ ~includes(expansion.remote, expansion.ciBranch)

\* C29: from the first match on, the pool is the list of the remote branch
\* names, followed by the CI branch in a run with publishOnPr whose CI branch
\* is not a remote branch; then a definition that matches the CI branch
\* yields a record named after it.
C29_CiBranchSynthesized ==
  pc \in {"expandReduce", "expanded"} =>
    /\ Synthesized => expansion.pool = expansion.remote \o <<expansion.ciBranch>>
    /\ ~Synthesized => expansion.pool = expansion.remote
    /\ (Expanded /\ Synthesized /\ MatchingPatterns(expansion.ciBranch) # {}) =>
         \E k \in DOMAIN expansion.result : expansion.result[k].name = expansion.ciBranch

C29_Witness ==
  /\ Expanded
  /\ Synthesized
  /\ expansion.ciBranch = "pr-2"
  /\ expansion.remote # <<>>
  /\ \E k \in DOMAIN expansion.result :
       /\ expansion.result[k].name = "pr-2"
       /\ expansion.result[k].prerelease = "pr-2"

(***************************************************************************)
(* Properties of the branch definitions.                                   *)
(***************************************************************************)
Filtered == pc \in {"validate", "validated"}

Validated == pc = "validated"

\* The number of types whose filter kept the branch i
TypesOf(i) ==
  Cardinality({type \in {"maintenance", "prerelease", "release"} :
                 includes(validation.byType[type], validation.branches[i])})

\* C26 as stated: every branch is kept by the filter of exactly one type.
C26_ExactlyOneType ==
  Filtered => \A i \in DOMAIN validation.branches : TypesOf(i) = 1

\* The ranges of the branches are pairwise distinct
DistinctRanges(branches) ==
  \A i, j \in DOMAIN branches : branches[i].range = branches[j].range => i = j

\* The prerelease identifiers of the branches are pairwise distinct
DistinctPrereleases(branches) ==
  \A i, j \in DOMAIN branches : branches[i].prerelease = branches[j].prerelease => i = j

\* C27: the validator of the release branches accepts them if and only if
\* there are 1, 2 or 3 of them.
C27_OneToThreeReleaseBranches ==
  Validated =>
    (validation.valid.release <=> Len(validation.byType.release) \in 1..3)

C27_Witness ==
  /\ Validated
  /\ Len(validation.byType.release) = 4
  /\ ~validation.valid.release

\* C28 as stated: the list validators accept if and only if the ranges,
\* and the prerelease identifiers, are pairwise distinct.
C28_PairwiseDistinct ==
  Validated =>
    /\ validation.valid.maintenance <=>
         DistinctRanges(validation.byType.maintenance)
    /\ validation.valid.prerelease <=>
         DistinctPrereleases(validation.byType.prerelease)

\* C28 amended: the maintenance validator accepts if and only if the ranges
\* are pairwise distinct once normalised, each value that is not a range
\* counting as the same null; ranges that are equal as written are rejected;
\* the prerelease validator accepts if and only if the prerelease values
\* are pairwise distinct.
C28_PairwiseDistinctNormalised ==
  Validated =>
    /\ validation.valid.maintenance <=>
         \A i, j \in DOMAIN validation.byType.maintenance :
            LET r == validation.byType.maintenance[i].range
                q == validation.byType.maintenance[j].range
            IN i # j => validRange(r) # validRange(q)
    /\ validation.valid.maintenance =>
         DistinctRanges(validation.byType.maintenance)
    /\ validation.valid.prerelease <=>
         DistinctPrereleases(validation.byType.prerelease)

C28_Witness ==
  /\ Validated
  /\ ~validation.valid.maintenance
  /\ Len(validation.byType.maintenance) = 2
  /\ validation.byType.maintenance[1].range = "1.x"
  /\ validation.byType.maintenance[2].range = "1.x.x"
  /\ ~validation.valid.prerelease
  /\ Len(validation.byType.prerelease) = 2

(***************************************************************************)
(* Properties of the tag resolution.                                       *)
(***************************************************************************)
\* The tag matches the expression of the format and the text of its group
\* is, once cleaned, a valid semver
Qualifies(tagName) ==
  LET version == match(tagName, tagRegexp(tagging.tagFormat))
  IN version # <<>> /\ valid(clean(version))

\* The text of the tag is the text before the variable of the format, then
\* a valid semver behind any number of = and v, then the last occurrence in
\* the tag of the text after the variable, and possibly more
WellFormed(tagName) ==
  LET regexp == tagRegexp(tagging.tagFormat)
      b == Len(regexp.before)
      a == Len(regexp.after)
      After(k) == b + k + a <= Len(tagName) /\ SubSeq(tagName, b + k + 1, b + k + a) = regexp.after
  IN \E k \in 1..Len(tagName) :
       /\ After(k)
       /\ \A l \in (k + 1)..Len(tagName) : ~After(l)
       /\ SubSeq(tagName, 1, b) = regexp.before
       /\ DOMAIN tagName[b + k] = {"version"}
       /\ \A i \in (b + 1)..(b + k - 1) : tagName[i] \in {Text("v"), Text("=")}

\* C30: the tags of every resolved branch are the tags git listed for it (for
\* HEAD on a pull request ref) that match the expression of the format with a
\* group that is a valid semver once cleaned, in the order of the list, each
\* with the group as its version; a tag that does not match, or whose group
\* is not a valid semver, is in no list.
C30_ResolvedTags ==
  pc \in {"getTags", "tagsResolved"} =>
    \A n \in DOMAIN tagging.result :
       LET b == tagging.branches[n]
           listed == tagging.gitTags[IF b.name = PullRequestRef THEN "HEAD" ELSE b.name]
           tags == tagging.result[n].tags
           kept == SelectSeq(listed, Qualifies)
       IN /\ Len(tags) = Len(kept)
          /\ \A i \in DOMAIN tags :
                /\ tags[i].gitTag = kept[i]
                /\ tags[i].version = match(kept[i], tagRegexp(tagging.tagFormat))
                /\ WellFormed(tags[i].gitTag)
          /\ \A i \in DOMAIN listed :
                WellFormed(listed[i]) <=> includes([j \in DOMAIN tags |-> tags[j].gitTag], listed[i])

C30_Witness ==
  /\ pc = "tagsResolved"
  /\ Len(tagging.branches) = 2
  /\ tagging.tagFormat = <<Text("v"), VersionVariable>>
  /\ Len(tagging.gitTags.master) = 3
  /\ Len(tagging.result[2].tags) = 2
  /\ tagging.result[1].tags = Reverse(tagging.result[2].tags)
  /\ \E i \in DOMAIN tagging.gitTags.master :
       tagging.gitTags.master[i] = <<Text("v"), Text("latest")>>
  /\ \E i \in DOMAIN tagging.result[2].tags :
       tagging.result[2].tags[i].gitTag = <<Text("v"), Text("v"), Ver(V(1, 2, 0, <<>>))>>

\* C31: the group the expression of a format matches in the tag rendered
\* from a valid semver with the same format is that semver.
C31_TagRoundTrip ==
  pc = "tagMatched" => tagging.matched = tagging.version

C31_Witness ==
  /\ pc = "tagMatched"
  /\ tagging.tagFormat = <<Text("v"), VersionVariable, PrereleaseText>>
  /\ tagging.version = <<Ver(V(1, 0, 0, <<>>)), PrereleaseText>>
  /\ tagging.gitTag = <<Text("v"), Ver(V(1, 0, 0, <<>>)), PrereleaseText, PrereleaseText>>
  /\ tagging.matched = tagging.version

\* The two notes git holds for a tag, as getNote parses them
LegacyNote(ref) == ParsedNote(tagging.notes[ref].legacy)

TagNote(ref) == ParsedNote(tagging.notes[ref].tag)

\* C32: what getNote returns for a tag has the keys of both of the tag's
\* notes, with the value of the tag-specific note for every key that note
\* defines and the value of the legacy note for the others, and the channel
\* list resolved for the tag is the merged channels value.
C32_TagNoteWins ==
  /\ \A i \in DOMAIN tagging.read :
       LET ref == tagging.read[i].ref
           note == tagging.read[i].note
       IN /\ DOMAIN note = DOMAIN LegacyNote(ref) \cup DOMAIN TagNote(ref)
          /\ \A k \in DOMAIN note :
               note[k] = IF k \in DOMAIN TagNote(ref) THEN TagNote(ref)[k]
                         ELSE LegacyNote(ref)[k]
  /\ \A n \in DOMAIN tagging.result :
       \A i \in DOMAIN tagging.result[n].tags :
         LET t == tagging.result[n].tags[i]
         IN "channels" \in DOMAIN getNote(tagging.notes[t.gitTag])
              => t.channels = getNote(tagging.notes[t.gitTag]).channels

\* The tags git listed for the n-th branch
ListedTags(n) == tagging.gitTags[TagsRef(tagging.branches[n])]

\* C33: a note git does not have counts as an empty object, so getNote of a
\* tag with no note is empty and getNote of a tag with one note is that
\* note; a tag none of whose notes records channels resolves to [null]; and
\* a branch whose list has a qualifying tag with a note git failed to show
\* for another reason is never resolved, a failed resolution never resolves.
C33_MissingNoteIsEmpty ==
  /\ \A i \in DOMAIN tagging.read :
       LET stored == tagging.notes[tagging.read[i].ref]
           note == tagging.read[i].note
       IN /\ stored.legacy = NoNote /\ stored.tag = NoNote => DOMAIN note = {}
          /\ stored.legacy = NoNote /\ "stdout" \in DOMAIN stored.tag
               => note = stored.tag.stdout
          /\ stored.tag = NoNote /\ "stdout" \in DOMAIN stored.legacy
               => note = stored.legacy.stdout
  /\ \A n \in DOMAIN tagging.result :
       /\ \A i \in DOMAIN tagging.result[n].tags :
            LET t == tagging.result[n].tags[i]
            IN "channels" \notin DOMAIN LegacyNote(t.gitTag) \cup DOMAIN TagNote(t.gitTag)
                 => t.channels = <<NULL>>
       /\ \A j \in DOMAIN ListedTags(n) :
            Qualifies(ListedTags(n)[j])
              => /\ tagging.notes[ListedTags(n)[j]].legacy # GitFailure
                 /\ tagging.notes[ListedTags(n)[j]].tag # GitFailure
  /\ pc = "getTagsFailed" => Len(tagging.result) < Len(tagging.branches)
  /\ pc = "tagsResolved" => Len(tagging.result) = Len(tagging.branches)

C33_Witness ==
  /\ pc = "tagsResolved"
  /\ \E n \in DOMAIN tagging.result :
       \E i \in DOMAIN tagging.result[n].tags :
         LET t == tagging.result[n].tags[i]
         IN /\ tagging.notes[t.gitTag] = [legacy |-> NoNote, tag |-> NoNote]
            /\ t.channels = <<NULL>>
            /\ \E r \in DOMAIN tagging.read :
                 tagging.read[r].ref = t.gitTag /\ DOMAIN tagging.read[r].note = {}

\* C34: the resolved list has, position by position, the branches of the
\* input: every resolved branch has the fields of the input branch at its
\* position with their values and a tags list besides, which is empty when
\* no tag git listed for the branch qualifies, and a resolution that
\* resolves has as many branches as its input.
C34_BranchListPreserved ==
  /\ Len(tagging.result) <= Len(tagging.branches)
  /\ \A n \in DOMAIN tagging.result :
       /\ DOMAIN tagging.result[n] = DOMAIN tagging.branches[n] \cup {"tags"}
       /\ \A k \in DOMAIN tagging.branches[n] :
            tagging.result[n][k] = tagging.branches[n][k]
       /\ (\A j \in DOMAIN ListedTags(n) : ~Qualifies(ListedTags(n)[j]))
            => tagging.result[n].tags = <<>>
  /\ pc = "tagsResolved" => Len(tagging.result) = Len(tagging.branches)

C34_Witness ==
  /\ pc = "tagsResolved"
  /\ Len(tagging.result) = 2
  /\ tagging.result[1].name = PullRequestRef
  /\ tagging.result[1].channel = "pr"
  /\ tagging.result[2].name = "master"
  /\ tagging.result[2].channel = UNDEFINED
  /\ Len(ListedTags(1)) = MaxTags
  /\ tagging.result[1].tags = <<>>
  /\ tagging.result[2].tags = <<>>

\* C35: every element of the tags list of the branch of the run is a record
\* with a gitTag, a version and a channels list, in every state of the run.
C35_TagRecords ==
  "tags" \in DOMAIN branch =>
    \A i \in DOMAIN branch.tags :
      {"gitTag", "version", "channels"} \subseteq DOMAIN branch.tags[i]

(***************************************************************************)
(* Properties of the release under construction.                           *)
(***************************************************************************)
\* The release the add-channel path works on, once getReleaseToAdd gave one
AddedRelease == IF releaseToAdd = <<>> THEN <<>> ELSE releaseToAdd.nextRelease

\* The step keeps every field the new release has, with its value
NewReleaseKept ==
  \A f \in DOMAIN nextRelease :
    f \in DOMAIN nextRelease' /\ nextRelease'[f] = nextRelease[f]

\* C36: no step of the run changes or removes a field that the release
\* under construction has, be it the release of the add-channel path or
\* the new release.
C36_AppendOnly ==
  [][/\ NewReleaseKept
     /\ \A f \in DOMAIN AddedRelease :
          f \in DOMAIN AddedRelease' /\ AddedRelease'[f] = AddedRelease[f]]_vars

\* C36, amended: the new release is append-only; the release of the
\* add-channel path is too, but for its gitHead, which getReleaseToAdd
\* sets to the name of the tag and the run replaces, once, by the commit
\* of that tag.
C36_AppendOnlyButTagHead ==
  [][/\ NewReleaseKept
     /\ \A f \in DOMAIN AddedRelease :
          /\ f \in DOMAIN AddedRelease'
          /\ \/ AddedRelease'[f] = AddedRelease[f]
             \/ /\ f = "gitHead"
                /\ pc = "addGetTagHead"
                /\ AddedRelease.gitHead = AddedRelease.gitTag
                /\ AddedRelease'.gitHead = getTagHead(AddedRelease.gitTag)]_vars

C36_Witness ==
  /\ DOMAIN AddedRelease = {"version", "gitTag", "name", "gitHead", "channel", "notes"}
  /\ AddedRelease.gitHead = getTagHead(AddedRelease.gitTag)
  /\ DOMAIN nextRelease = {"type", "channel", "gitHead", "version", "gitTag", "name", "notes"}
  /\ nextRelease.gitHead = git.localHead

(***************************************************************************)
(* Properties of the computed version against the last release.            *)
(***************************************************************************)
\* C37: the version computed for a branch with a last release is greater,
\* in semver precedence, than the version of that last release.
C37_GreaterThanLastRelease ==
  (Computed /\ lastRelease # <<>>) =>
    SemverGt(nextRelease.version, lastRelease.version)

\* The fresh candidate 1.0.1-beta.0 is lower than the last release
\* 1.0.1-beta.1, and the continuation 1.0.1-beta.2 is returned
C37_Witness ==
  /\ Computed
  /\ branch.type = "prerelease"
  /\ lastRelease # <<>>
  /\ lastRelease.version = V(1, 0, 1, <<"beta", 1>>)
  /\ nextRelease.type = "patch"
  /\ "prereleaseIdentifierBase" \notin DOMAIN options
  /\ Len(branch.tags) = 1
  /\ nextRelease.version = V(1, 0, 1, <<"beta", 2>>)

(***************************************************************************)
(* Properties of the run on a branch that is not configured.               *)
(***************************************************************************)
\* getBranches returned and none of its branches has the name of the CI branch
NoBranchForCi ==
  /\ HasCall("config", "getBranches", TRUE)
  /\ CiBranch(envCi) \notin DOMAIN git.branches

\* C38: once getBranches returned a list without the CI branch the run is
\* over and returned false: the permission probe was not made, no plugin
\* step, fail included, and no git mutation was called, nothing was thrown,
\* and the repository has the tags and notes it had.
C38_UnconfiguredBranchReturnsFalse ==
  NoBranchForCi =>
    /\ Done
    /\ outcome = "false"
    /\ result = <<>>
    /\ calls[Len(calls)] = Call("config", "getBranches", TRUE)
    /\ \A i \in DOMAIN calls :
         calls[i].op \notin PluginSteps \cup GitMutations \cup {"fail", "verifyAuth"}
    /\ thrown = <<>> /\ raised = <<>> /\ failErrors = <<>>
    /\ branch = <<>>
    /\ repo = InitialRepo

C38_Witness ==
  /\ NoBranchForCi
  /\ CiBranch(envCi) = "feature"
  /\ ~options.dryRun
  /\ git.authorized
  /\ Done
  /\ outcome = "false"

(***************************************************************************)
(* Properties of two invocations on the same remote branch.                *)
(***************************************************************************)
\* The invocation performed the operation of the new-release path
Did(invocation_, op) ==
  \E i \in DOMAIN invocation_.calls : invocation_.calls[i] = Call("new", op, TRUE)

\* The second invocation started when the first had ended, and both created
\* a tag with the same name
SameTagInTurn(first, second) ==
  /\ second.serialized
  /\ Did(first, "tag")
  /\ Did(second, "tag")
  /\ second.nextRelease.gitTag = first.nextRelease.gitTag

\* The same, the first invocation having pushed its tag
SamePushedTagInTurn(first, second) ==
  Did(first, "push") /\ SameTagInTurn(first, second)

\* C39: of two invocations of which the second started when the first had
\* ended, the second never creates a tag with the name of the tag the first
\* created.
C39_SerializedNeverSameTag ==
  /\ ~SameTagInTurn(Running, concurrent.other)
  /\ ~SameTagInTurn(concurrent.other, Running)

\* C39, amended: of two invocations of which the second started when the
\* first had ended, the second never creates a tag with the name of a tag
\* the first created and pushed to the remote.
C39_SerializedNeverSamePushedTag ==
  /\ ~SamePushedTagInTurn(Running, concurrent.other)
  /\ ~SamePushedTagInTurn(concurrent.other, Running)

\* Two interleaved invocations with the same tag history both passed the
\* permission probe, computed the same version and tag name, created the
\* tag and pushed it
C39_Witness ==
  /\ ~concurrent.serialized
  /\ ~concurrent.other.serialized
  /\ branch # <<>>
  /\ concurrent.other.branch # <<>>
  /\ branch.tags = concurrent.other.branch.tags
  /\ HasCall("auth", "verifyAuth", TRUE)
  /\ \E i \in DOMAIN concurrent.other.calls :
       concurrent.other.calls[i] = Call("auth", "verifyAuth", TRUE)
  /\ Did(Running, "tag") /\ Did(Running, "push")
  /\ Did(concurrent.other, "tag") /\ Did(concurrent.other, "push")
  /\ nextRelease.version = concurrent.other.nextRelease.version
  /\ nextRelease.gitTag = concurrent.other.nextRelease.gitTag
  /\ nextRelease.gitTag \in repo.remoteTags
====
